---- MODULE Spec2Model ----
(***************************************************************************)
(* Verification model of the onboarding scraper API:                       *)
(*   - ToolHandler.execute_parallel / execute_tool_call (tool dispatch),   *)
(*   - extract_product_snapshot_agentic (the agent loop),                  *)
(*   - scrape_product_job and RedisEventEmitter (the job and its log),     *)
(*   - stream_job_events.event_generator (the reconnectable stream).       *)
(* The specifications share the definitions:                               *)
(*   SpecTools       : one execute_parallel batch, thread by thread;       *)
(*   SpecLoop        : one job, enqueued and run with freely chosen tool   *)
(*                     batches that execute thread by thread;              *)
(*   SpecLoopFair    : SpecLoop in which the worker keeps making steps;    *)
(*   Spec            : one job run together with a stream connection;      *)
(*   SpecEmitter     : direct calls of RedisEventEmitter.emit_*;           *)
(*   SpecFault       : one job run in which Redis writes may fail;         *)
(*   SpecFaultStream : a short job run with failing Redis writes and a     *)
(*                     stream connection;                                  *)
(*   SpecTwoJobs     : the emitters of two jobs on one Redis;              *)
(*   SpecTimeout     : a stream connection polling up to max_polls;        *)
(*   SpecRegistry    : calls of ToolRegistry.register;                     *)
(*   SpecPool        : one execute_parallel batch larger than the pool;    *)
(*   SpecEmitterFault: direct emit_* calls while Redis writes may fail;    *)
(*   SpecDirect      : one request to POST /scrape/stream;                 *)
(*   SpecStreams     : two concurrent stream connections to one job;       *)
(*   SpecSearchThreads : search_web handlers run by concurrent threads.    *)
(***************************************************************************)
EXTENDS Integers, Sequences, FiniteSets, TLC

VARIABLES
    \* ---- ToolHandler.execute_parallel, one batch ----
    ep_tool_calls,   \* the tool_calls argument
    ep_queue,        \* indices submitted to the executor and not yet started
    ep_running,      \* indices whose execute_tool_call is running in a worker
    ep_outcome,      \* what the handler of each finished index did
    ep_collected,    \* indices whose future as_completed has yielded
    ep_results,      \* the results list, in as_completed order
    ep_sorted,       \* sorted_results, the return value
    ep_pc,           \* "idle" | "running" | "returned" | "aborted"
    ep_invoked,      \* how often the handler of each index was entered
    \* ---- the job: RQ record, scrape_product_job, the agent loop ----
    rq_status,       \* "none" | "queued" | "started" | "finished" | "failed"
                     \* | "deleted": the RQ record of the job
    pc,              \* position of the worker inside scrape_product_job
    current_iteration,
    messages,        \* the conversation history
    tool_calls,      \* response.choices[0].message.tool_calls of this turn
    tc_idx,          \* position of the "for tc in tool_calls" loop
    events_log,      \* the Redis list job:{job_id}:events
    event_count,     \* RedisEventEmitter.event_count
    events_ttl,      \* seconds until the events key expires (0: none set)
    appended_at,     \* clock reading at the last append to the events key
    other_log,       \* the Redis list at the events key of another job
    callback,        \* RedisEventEmitter.callback (None for a job)
    received,        \* the events the callback was invoked with
    result_store,    \* the Redis key job:{job_id}:result ("none" if unset)
    result_ttl,      \* expiry in seconds of the result key (0: none set)
    result_writes,   \* number of SETs of the result key
    \* ---- Redis as the job sees it ----
    faults_left,     \* Redis writes that may still fail
    \* ---- the language model, as the loop sees it ----
    llm_free,        \* turns in which the model still picks its batch freely
    llm_tool_turns,  \* turns in which the model may still request tools
    \* ---- what lies outside one job run ----
    now,             \* the clock, in ticks
    other_calls,     \* calls made on the emitter of the other job
    poll_cap,        \* polls of one connection that are explored
    other_conn,      \* the locals of a second connection to the same job
    initial_url,     \* request.source_url, the argument of the job
    _tools,          \* ToolRegistry._tools, in insertion order
    _handlers,       \* ToolRegistry._handlers, in insertion order
    registered,      \* the register calls made so far (history variable)
    \* ---- one request to POST /scrape/stream ----
    scrape_task,     \* the executor thread: "none" | "running" | "returned" | "raised"
    scrape_task_done, \* scrape_task.done(), the state of the asyncio future
    events_buffer,   \* the events handed to event_callback
    d_pc,            \* position inside stream_events
    d_last_position, \* last_position of stream_events
    d_sent,          \* the events yielded to the client
    \* ---- search_web, its TavilyClientWithFallback and the threads in it ----
    _tavily_client,  \* the module global of search.py: an instance, 0 for None
    current_key_index, \* per instance
    client_key,      \* per instance: index of the key self._client holds
    t_pc,            \* per thread: position inside search_web
    t_client,        \* per thread: the instance _get_tavily_client returned
    t_attempts,      \* per thread: attempts
    t_next,          \* per thread: next_index of _switch_to_next_key
    t_built,         \* per thread: key of the TavilyClient built on line 30
    t_key,           \* per thread: key of the last underlying call, or -1
    t_calls,         \* per thread: underlying calls of the current search
    t_result,        \* per thread: how the last search ended
    t_payload,       \* per thread: how the last search_web ended
    limited_keys,    \* keys with which a call returned a rate-limit error
    searches,        \* number of search calls begun
    \* ---- observations of the job run (history variables) ----
    model_calls,     \* one entry per chat.completions.parse call
    dispatches,      \* number of execute_parallel calls
    loop_events,     \* kinds handed to event_callback by the agent loop
    emitted,         \* every event handed to RedisEventEmitter._persist_event
    emit_pending,    \* the emit_* call that is under way, if any
    \* ---- one connection to GET /jobs/{job_id}/stream ----
    s_pc,            \* position inside event_generator
    events_json_list,
    last_position,
    poll_count,
    sent,            \* the notifications yielded on this connection
    s_out,           \* notifications of the last read that are still to yield
    s_yield,         \* the yield of a for loop the generator is suspended
                     \* at: "id" (the "id:" line of the head of s_out),
                     \* "data" (the "data:" line of the last entry of
                     \* sent), or "none" when it is not at such a yield
    close_reason,    \* why the generator returned
    read_faults_left \* Redis reads of the stream that may still fail

epVars     == <<ep_tool_calls, ep_queue, ep_running, ep_outcome, ep_collected,
                ep_results, ep_sorted, ep_pc, ep_invoked>>
logVars    == <<events_log, event_count, emitted, emit_pending, events_ttl, received,
                faults_left, appended_at, other_log>>
resultVars == <<result_store, result_ttl, result_writes>>
regVars    == <<_tools, _handlers, registered>>
directVars ==
    <<scrape_task, scrape_task_done, events_buffer, d_pc, d_last_position,
      d_sent>>
tavilyVars == <<_tavily_client, current_key_index, client_key, t_pc,
                t_client, t_attempts, t_next, t_built, t_key, t_calls,
                t_result, t_payload, limited_keys, searches>>
extVars    == <<directVars, tavilyVars>>
envVars    == <<llm_free, llm_tool_turns, callback, now, other_calls,
                poll_cap, initial_url, other_conn, regVars, extVars>>
loopObs    == <<model_calls, dispatches, loop_events>>
jobVars    == <<rq_status, pc, current_iteration, messages, tool_calls, tc_idx,
                logVars, resultVars, envVars, loopObs>>
streamVars == <<s_pc, events_json_list, last_position, poll_count, sent,
                s_out, s_yield, close_reason, read_faults_left>>
vars       == <<epVars, jobVars, streamVars>>

(***************************************************************************)
(* Bounds of the model.                                                    *)
(***************************************************************************)
MaxBatch == 3        \* largest batch handed to execute_parallel in SpecTools
MaxCalls == 2        \* largest batch the model requests in one turn
MaxFreeTurns == 1    \* tool turns whose batch and handler outcomes are free
MaxPollsModel == 12  \* polls of one connection that are explored
MaxEmits == 3        \* direct emit_* calls explored in SpecEmitter
MaxFaults == 1       \* Redis writes that fail during one job run
MaxTicks == 2        \* clock ticks explored in SpecEmitter
MaxRegisters == 3    \* register calls explored in SpecRegistry
MaxFaultToolTurns == 1  \* tool turns of the job in SpecFaultStream
MaxStreamToolTurns == 2 \* tool turns of the job in Spec
MaxPoolBatch == 6     \* largest batch of like calls explored in SpecPool
MaxCallbackOnly == 1  \* calls of the inherited emit_* methods in SpecEmitter
MaxBuffered == 3      \* events one scrape hands to the callback of the endpoint
MaxSearchThreads == 2 \* search_web handlers running at the same time
MaxKeys == 3          \* most Tavily API keys configured
MaxSearches == 3      \* calls of TavilyClientWithFallback.search explored

(***************************************************************************)
(* Program constants.                                                      *)
(***************************************************************************)
max_workers_per_call == MaxPoolBatch

max_workers == 5
max_iterations == 10
max_polls == 6000
StatusCheckEvery == 10
EventsExpireSeconds == 86400

ResultExpireOneHour == 60 * 60

ResultExpireSeconds == 86400

None == "None"

(***************************************************************************)
(* Sequence helpers.                                                       *)
(***************************************************************************)
Range(s) == {s[i] : i \in 1..Len(s)}

IsPrefix(s, t) == Len(s) <= Len(t) /\ SubSeq(t, 1, Len(s)) = s

Last(s) == s[Len(s)]

\* redis LRANGE key start -1 with a 0-based start
LRange(list, start) == SubSeq(list, start + 1, Len(list))

(***************************************************************************)
(* ToolRegistry as set up by extract_product_snapshot_agentic.             *)
(***************************************************************************)
RegisteredTools == {"fetch_web_content", "search_web"}

get_handler(name) == IF name \in RegisteredTools THEN name ELSE None

\* The arguments string of a tool call is one of:
\*   "url"       {"url": u}, u a non-empty string
\*   "url_falsy" {"url": u}, u the empty string or null
\*   "query"     {"query": q}, q a non-empty string
\*   "query_int" {"query": q}, q a non-zero number or a non-empty list
\*   "badjson"   not JSON
UrlArguments == {"url", "url_falsy"}
QueryArguments == {"query", "query_int"}

\* json.loads(tool_call.function.arguments) succeeds
ArgsParse(arguments) == arguments # "badjson"

\* handler(**args) binds: the keyword arguments match the handler's signature
HandlerAccepts(name, arguments) ==
    \/ name = "fetch_web_content" /\ arguments \in UrlArguments
    \/ name = "search_web" /\ arguments \in QueryArguments

\* the handler is actually entered for this call
HandlerInvoked(tc) ==
    /\ get_handler(tc.name) # None
    /\ ArgsParse(tc.arguments)
    /\ HandlerAccepts(tc.name, tc.arguments)

\* what an entered handler can do.  search_web (search.py:23-68) catches
\* every exception of the search itself, but its guard query.strip() runs
\* before the try and raises on a query that is not a string.
\* fetch_web_content (fetcher.py:10-53) returns an error text for the empty
\* url, raises on null (url.startswith) and, for a url, returns or raises
\* (only httpx.HTTPError is caught).
HandlerOutcomes(tc) ==
    IF ~HandlerInvoked(tc) THEN {"not_called"}
    ELSE IF tc.name = "search_web"
         THEN IF tc.arguments = "query" THEN {"ok"} ELSE {"raise"}
         ELSE {"ok", "raise"}

HandlerEntriesWithRetry(tc, outcome) ==
    IF ~HandlerInvoked(tc) THEN 0 ELSE IF outcome = "raise" THEN 2 ELSE 1

\* line 71: handler(**args) is called once inside the try, whatever it does
HandlerEntries(tc, outcome) == IF HandlerInvoked(tc) THEN 1 ELSE 0

ToolResult(call_id, name, content, success) ==
    [call_id |-> call_id, name |-> name, content |-> content,
     success |-> success]

ExecuteToolCallAbortsOnRaise(tc, outcome) == outcome = "raise"

ExecuteToolCallRaisesOnBadArgs(tc, outcome) == ~ArgsParse(tc.arguments)

\* TRUE iff execute_tool_call lets an exception escape to future.result()
ExecuteToolCallRaises(tc, outcome) == FALSE

\* line 65: json.dumps({"success": False, "error": f"Unknown tool: {name}"})
UnknownToolContent(name) == "Unknown tool: " \o name

execute_tool_call(tc, outcome) ==
    IF get_handler(tc.name) = None
    THEN ToolResult(tc.id, tc.name, UnknownToolContent(tc.name), FALSE)
    ELSE IF ArgsParse(tc.arguments)
            /\ HandlerAccepts(tc.name, tc.arguments)
            /\ outcome = "ok"
         THEN ToolResult(tc.id, tc.name, "result", TRUE)
         ELSE ToolResult(tc.id, tc.name, "error", FALSE)

\* tool_calls.index(next(tc for tc in tool_calls if tc.id == r.call_id))
SortKey(calls, r) ==
    CHOOSE i \in 1..Len(calls) :
        /\ calls[i].id = r.call_id
        /\ \A j \in 1..(i - 1) : calls[j].id # r.call_id

\* sorted() is stable: a result comes after every result with a smaller key
\* and after every earlier result with the same key
SortedByKey(rs, calls) ==
    LET key(i) == SortKey(calls, rs[i])
        rank(i) ==
            1 + Cardinality({j \in 1..Len(rs) :
                                \/ key(j) < key(i)
                                \/ key(j) = key(i) /\ j < i})
    IN  [p \in 1..Len(rs) |-> rs[CHOOSE i \in 1..Len(rs) : rank(i) = p]]

SortedResultsUnsorted(rs, calls) == rs

\* sorted(results, key=...)
SortedResults(rs, calls) == SortedByKey(rs, calls)

(***************************************************************************)
(* SpecTools: one call of execute_parallel with its worker pool.           *)
(***************************************************************************)
EpNames == {"fetch_web_content", "bogus_tool"}
EpArguments == {"url", "badjson"}

EpCalls(k) ==
    {c \in [id : 1..k, name : EpNames, arguments : EpArguments] :
        ~(c.name = "bogus_tool" /\ c.arguments = "badjson")}

\* ids are the positions, except that the last call may repeat the first id
EpBatches ==
    UNION {{b \in [1..k -> EpCalls(k)] :
               \A i \in 1..k : b[i].id = i \/ (i = k /\ b[i].id = 1)}
           : k \in 1..MaxBatch}

DistinctIds(calls) ==
    \A i, j \in 1..Len(calls) : calls[i].id = calls[j].id => i = j

EpIdle ==
    /\ ep_tool_calls = <<>>
    /\ ep_queue = <<>>
    /\ ep_running = {}
    /\ ep_outcome = <<>>
    /\ ep_collected = {}
    /\ ep_results = <<>>
    /\ ep_sorted = <<>>
    /\ ep_pc = "idle"
    /\ ep_invoked = <<>>

\* futures = [executor.submit(self.execute_tool_call, tc) for tc in tool_calls]
EpInit ==
    /\ ep_tool_calls \in EpBatches
    /\ ep_queue = [i \in 1..Len(ep_tool_calls) |-> i]
    /\ ep_running = {}
    /\ ep_outcome = [i \in 1..Len(ep_tool_calls) |-> "pending"]
    /\ ep_collected = {}
    /\ ep_results = <<>>
    /\ ep_sorted = <<>>
    /\ ep_pc = "running"
    /\ ep_invoked = [i \in 1..Len(ep_tool_calls) |-> 0]

\* a free worker takes the oldest submitted call
EpStart ==
    /\ ep_pc = "running"
    /\ ep_queue # <<>>
    /\ Cardinality(ep_running) < max_workers
    /\ ep_running' = ep_running \cup {Head(ep_queue)}
    /\ ep_queue' = Tail(ep_queue)
    /\ UNCHANGED <<ep_tool_calls, ep_outcome, ep_collected, ep_results,
                   ep_sorted, ep_pc, ep_invoked>>
    /\ UNCHANGED <<jobVars, streamVars>>

\* outside the freely chosen turns of a job run a handler that can return
\* does return
DefaultOutcome(tc) ==
    IF ~HandlerInvoked(tc) THEN "not_called"
    ELSE IF "ok" \in HandlerOutcomes(tc) THEN "ok" ELSE "raise"

\* what the handler of a call of the current batch may do
EpOutcomes(tc) ==
    IF current_iteration <= llm_free THEN HandlerOutcomes(tc)
    ELSE {DefaultOutcome(tc)}

\* a worker thread: its execute_tool_call completes and the future is done
EpFinish ==
    /\ ep_pc = "running"
    /\ \E i \in ep_running :
        \E outcome \in EpOutcomes(ep_tool_calls[i]) :
            /\ ep_running' = ep_running \ {i}
            /\ ep_outcome' = [ep_outcome EXCEPT ![i] = outcome]
            /\ ep_invoked' =
                  [ep_invoked EXCEPT
                      ![i] = @ + HandlerEntries(ep_tool_calls[i], outcome)]
    /\ UNCHANGED <<ep_tool_calls, ep_queue, ep_collected, ep_results,
                   ep_sorted, ep_pc>>
    /\ UNCHANGED <<jobVars, streamVars>>

\* futures that are done and that as_completed has not yielded yet
EpDone ==
    {i \in 1..Len(ep_tool_calls) : ep_outcome[i] # "pending"} \ ep_collected

\* lines 96-97, the calling thread: as_completed yields a future that is
\* done (futures done before the call come in no particular order) and
\* results.append(future.result())
EpCollect ==
    /\ ep_pc = "running"
    /\ \E i \in EpDone :
            /\ ep_collected' = ep_collected \cup {i}
            /\ IF ExecuteToolCallRaises(ep_tool_calls[i], ep_outcome[i])
               THEN /\ ep_pc' = "aborted"
                    /\ UNCHANGED ep_results
               ELSE /\ ep_results' =
                         Append(ep_results,
                                execute_tool_call(ep_tool_calls[i],
                                                  ep_outcome[i]))
                    /\ UNCHANGED ep_pc
    /\ UNCHANGED <<ep_tool_calls, ep_queue, ep_running, ep_outcome,
                   ep_sorted, ep_invoked>>
    /\ UNCHANGED <<jobVars, streamVars>>

AnyFutureCollected == ep_results # <<>>

\* the as_completed loop ends when it has yielded every submitted future
AllFuturesCollected == ep_collected = 1..Len(ep_tool_calls)

\* every future was collected: sort and return
EpReturn ==
    /\ ep_pc = "running"
    /\ AllFuturesCollected
    /\ ep_sorted' = SortedResults(ep_results, ep_tool_calls)
    /\ ep_pc' = "returned"
    /\ UNCHANGED <<ep_tool_calls, ep_queue, ep_running, ep_outcome,
                   ep_collected, ep_results, ep_invoked>>
    /\ UNCHANGED <<jobVars, streamVars>>

Msg(role, calls, call_id, name, content) ==
    [role |-> role, tool_calls |-> calls, tool_call_id |-> call_id,
     name |-> name, content |-> content]

build_tool_response_messages_of_successes(results) ==
    LET good == SelectSeq(results, LAMBDA r : r.success)
    IN  [i \in 1..Len(good) |->
            Msg("tool", <<>>, good[i].call_id, good[i].name, good[i].content)]

build_tool_response_messages(results) ==
    [i \in 1..Len(results) |->
        Msg("tool", <<>>, results[i].call_id, results[i].name,
            results[i].content)]

(***************************************************************************)
(* Events (schemas/events.py) and the emitters.                            *)
(***************************************************************************)
\* data is the payload field of the kind: url, data or error
Event(kind, message, data) ==
    [event |-> kind, message |-> message, data |-> data]

StartEvent == Event("start", "Checking out your website", "")
ReadingEvent(url) == Event("reading", "Reading", url)
UpdateEvent(message) == Event("update", message, "")
ProgressEvent(message, iteration) == Event("progress", message, iteration)
ToolCallEvent(tool_name, url, message) == Event("tool_call", message, url)
ToolResultEvent(tool_name, success, message) ==
    Event("tool_result", message, tool_name)
CompleteEvent(message, data) == Event("complete", message, data)
ErrorEvent(message, error) == Event("error", message, error)

TerminalKinds == {"complete", "error"}
IsTerminal(e) == e.event \in TerminalKinds

_persist_event_lpush(log, event) == <<event>> \o log

\* self.redis.rpush(self.events_key, event_json)
_persist_event(log, event) == Append(log, event)

ThisJob == "job-a"
OtherJob == "job-b"

events_key_shared(job_id) == "job:events"

\* line 43: self.events_key = f"job:{job_id}:events"
events_key(job_id) == "job:" \o job_id \o ":events"

ExpireOnlyNewKey(ttl) == IF ttl = 0 THEN EventsExpireSeconds ELSE ttl

\* line 59: self.redis.expire(self.events_key, 86400) after every rpush
ExpireAfterPersist(ttl) == EventsExpireSeconds

\* whether the next Redis write of the job raises
WriteFaults == IF faults_left > 0 THEN {"none", "raise"} ELSE {"none"}

PersistRaisesOnFault(fault) == fault # "none"

\* lines 55-63: the try/except around the writes lets nothing escape
PersistRaises(fault) == FALSE

\* "if self.callback: self.callback(event)"
InvokeCallback(cb, rec, event) ==
    IF cb # None THEN Append(rec, event) ELSE rec

\* the emit_* call under way: its event and where its caller goes on
EmitCall(event, ok_pc, raise_pc) ==
    <<[event |-> event, ok_pc |-> ok_pc, raise_pc |-> raise_pc]>>

\* lines 69-70 (and alike): "if self.callback: self.callback(event)"; without
\* a callback the method returns, with one the call is the next step
AfterPersist(call) ==
    IF callback = None
    THEN /\ received' = InvokeCallback(callback, received, call[1].event)
         /\ pc' = call[1].ok_pc
         /\ emit_pending' = <<>>
    ELSE /\ received' = received
         /\ pc' = "emit_callback"
         /\ emit_pending' = call

\* RedisEventEmitter.emit_* up to line 57: the event is built and
\* self.redis.rpush(self.events_key, event_json) is sent; the caller goes on
\* at ok_pc when the method returns, or at raise_pc if it raised
Emit(event, ok_pc, raise_pc) ==
    \E fault \in WriteFaults :
        /\ emitted' = Append(emitted, event)
        /\ events_log' = IF fault = "raise" THEN events_log
                         ELSE _persist_event(events_log, event)
        /\ other_log' = IF events_key(OtherJob) = events_key(ThisJob)
                        THEN events_log' ELSE other_log
        /\ appended_at' = IF fault = "raise" THEN appended_at ELSE now
        /\ faults_left' = IF fault = "none" THEN faults_left
                          ELSE faults_left - 1
        /\ UNCHANGED <<events_ttl, event_count>>
        /\ IF PersistRaises(fault)
           THEN /\ received' = received
                /\ pc' = raise_pc
                /\ emit_pending' = <<>>
           ELSE IF fault = "raise"
           THEN AfterPersist(EmitCall(event, ok_pc, raise_pc))
           ELSE /\ received' = received
                /\ pc' = "persist_expire"
                /\ emit_pending' = EmitCall(event, ok_pc, raise_pc)

\* lines 59-60: self.redis.expire(self.events_key, 86400) and, when it
\* returned, self.event_count += 1
PersistExpire ==
    /\ pc = "persist_expire"
    /\ \E fault \in WriteFaults :
        /\ events_ttl' = IF fault = "none" THEN ExpireAfterPersist(events_ttl)
                         ELSE events_ttl
        /\ event_count' = IF fault = "none" THEN event_count + 1
                          ELSE event_count
        /\ faults_left' = IF fault = "none" THEN faults_left
                          ELSE faults_left - 1
        /\ IF PersistRaises(fault)
           THEN /\ received' = received
                /\ pc' = emit_pending[1].raise_pc
                /\ emit_pending' = <<>>
           ELSE AfterPersist(emit_pending)
    /\ UNCHANGED <<events_log, other_log, appended_at, emitted>>
    /\ UNCHANGED <<rq_status, current_iteration, messages, tool_calls, tc_idx,
                   resultVars, envVars, loopObs>>
    /\ UNCHANGED <<epVars, streamVars>>

\* lines 69-70 (and alike): self.callback(event), then the method returns
EmitCallback ==
    /\ pc = "emit_callback"
    /\ received' = InvokeCallback(callback, received, emit_pending[1].event)
    /\ pc' = emit_pending[1].ok_pc
    /\ emit_pending' = <<>>
    /\ UNCHANGED <<events_log, other_log, appended_at, emitted, events_ttl,
                   event_count, faults_left>>
    /\ UNCHANGED <<rq_status, current_iteration, messages, tool_calls, tc_idx,
                   resultVars, envVars, loopObs>>
    /\ UNCHANGED <<epVars, streamVars>>

\* emit_start, emit_reading, emit_update, emit_complete and emit_error of
\* the agent loop's EventEmitter: the event of the call, of the kind start,
\* tool_call, progress, complete or error, goes to event_callback, which is
\* RedisEventEmitter.emit_event in scrape_product_job
LoopEmit(event, ok_pc, raise_pc) ==
    /\ Emit(event, ok_pc, raise_pc)
    /\ loop_events' = Append(loop_events, event.event)

(***************************************************************************)
(* The language model as seen by the loop: what a turn can answer.         *)
(***************************************************************************)
LoopCallKinds ==
    {<<"fetch_web_content", "url">>, <<"search_web", "query">>,
     <<"fetch_web_content", "badjson">>, <<"bogus_tool", "url">>,
     <<"search_web", "url">>, <<"fetch_web_content", "url_falsy">>,
     <<"search_web", "query_int">>}

CallId(iteration, i) == (iteration - 1) * MaxCalls + i

ToolCall(id, kind) == [id |-> id, name |-> kind[1], arguments |-> kind[2]]

LoopBatches(iteration) ==
    UNION {{[i \in 1..k |-> ToolCall(CallId(iteration, i), kinds[i])]
              : kinds \in [1..k -> LoopCallKinds]}
           : k \in 1..MaxCalls}

DefaultBatch(iteration) ==
    <<ToolCall(CallId(iteration, 1), <<"fetch_web_content", "url">>)>>

\* the batches the model may request on this turn
TurnBatches(iteration) ==
    IF iteration <= llm_free THEN LoopBatches(iteration)
    ELSE {DefaultBatch(iteration)}

\* lines 202-207: emit_reading is called only for fetch_web_content whose
\* parsed arguments hold a truthy url ("if url:")
EmitsReading(tc) ==
    /\ tc.name \in {"fetch_web_content"}
    /\ ArgsParse(tc.arguments)
    /\ tc.arguments = "url"

\* what the model may answer on this turn
TurnResponses(iteration) ==
    IF iteration <= llm_tool_turns
    THEN {"tools", "record", "none", "raise"}
    ELSE {"record", "none", "raise"}

\* the source_url of a request is any string (schemas/api.py:10): one that
\* is free of the text "[Iteration" and one that holds it
PlainUrl == "https://product.example"
MarkedUrl == "https://product.example/[Iteration"
InitialUrls == {PlainUrl, MarkedUrl}

\* lines 137-153: the content of the user message holds the URL
TaskText(url) == "TASK Official Homepage URL: " \o url

\* lines 160-162: the note of an iteration
iteration_context(iteration) ==
    "[Iteration " \o ToString(iteration) \o "/" \o ToString(max_iterations)
       \o "]"

\* line 166, right operand: "[Iteration" in content, for the contents a
\* user message of the loop can have
HasIterationText(content) ==
    \/ content = TaskText(MarkedUrl)
    \/ \E url \in InitialUrls, iteration \in 1..max_iterations :
          content = TaskText(url) \o iteration_context(iteration)

\* lines 166-167: the note is added to a trailing user message whose
\* content, the URL of the request included, is free of "[Iteration"
AnnotateIteration(msgs, iteration) ==
    IF Last(msgs).role = "user" /\ ~HasIterationText(Last(msgs).content)
    THEN [msgs EXCEPT ![Len(msgs)].content = @ \o iteration_context(iteration)]
    ELSE msgs

\* one client.beta.chat.completions.parse call and what came back
ModelCall(iteration, tools, history, response) ==
    [iteration |-> iteration, tools |-> tools, history |-> history,
     response |-> response]

(***************************************************************************)
(* The job: RQ worker, scrape_product_job, extract_product_snapshot_agentic*)
(***************************************************************************)
\* no request to POST /scrape/stream has been made
DirectIdle ==
    /\ scrape_task = "none"
    /\ scrape_task_done = FALSE
    /\ events_buffer = <<>>
    /\ d_pc = "idle"
    /\ d_last_position = 0
    /\ d_sent = <<>>

SearchThreads == 1..MaxSearchThreads

NoClient == 0  \* None, where instances are named after the creating thread

\* search.py:10: the module has just been loaded, no client exists and no
\* search_web runs
TavilyFresh ==
    /\ _tavily_client = NoClient
    /\ current_key_index = [i \in SearchThreads |-> 0]
    /\ client_key = [i \in SearchThreads |-> 0]
    /\ t_pc = [t \in SearchThreads |-> "idle"]
    /\ t_client = [t \in SearchThreads |-> NoClient]
    /\ t_attempts = [t \in SearchThreads |-> 0]
    /\ t_next = [t \in SearchThreads |-> 0]
    /\ t_built = [t \in SearchThreads |-> 0]
    /\ t_key = [t \in SearchThreads |-> -1]
    /\ t_calls = [t \in SearchThreads |-> 0]
    /\ t_result = [t \in SearchThreads |-> "none"]
    /\ t_payload = [t \in SearchThreads |-> "none"]
    /\ limited_keys = {}
    /\ searches = 0

\* the state before the job of a request for url runs
JobInitFor(url, status, free, turns, faults, cb) ==
    /\ initial_url = url
    /\ rq_status = status
    /\ pc = "idle"
    /\ current_iteration = 0
    /\ messages = <<>>
    /\ tool_calls = <<>>
    /\ tc_idx = 0
    /\ events_log = <<>>
    /\ event_count = 0
    /\ events_ttl = 0
    /\ appended_at = 0
    /\ other_log = <<>>
    /\ now = 0
    /\ other_calls = 0
    /\ _tools = <<>>
    /\ _handlers = <<>>
    /\ registered = <<>>
    /\ callback = cb
    /\ received = <<>>
    /\ result_store = "none"
    /\ result_ttl = 0
    /\ result_writes = 0
    /\ faults_left = faults
    /\ llm_free = free
    /\ llm_tool_turns = turns
    /\ model_calls = <<>>
    /\ dispatches = 0
    /\ loop_events = <<>>
    /\ emitted = <<>>
    /\ emit_pending = <<>>
    /\ DirectIdle
    /\ TavilyFresh

JobInit(status, free, turns, faults, cb) ==
    JobInitFor(PlainUrl, status, free, turns, faults, cb)

\* api.py:151-193: POST /scrape/async enqueues the job under a fresh id;
\* the id reaches the client with the response, so no connection to the
\* stream of this job is open yet
scrape_product_async ==
    /\ rq_status = "none"
    /\ pc = "idle"
    /\ s_pc = "idle"
    /\ other_conn.s_pc = "idle"
    /\ rq_status' = "queued"
    /\ UNCHANGED <<pc, current_iteration, messages, tool_calls, tc_idx,
                   logVars, resultVars, envVars, loopObs>>
    /\ UNCHANGED <<epVars, streamVars>>

\* scripts/clear_queue.py:25-52: queue.empty() deletes every queued job;
\* when the queue was not empty, every job of the failed registry is
\* removed with delete_job=True.  A started or finished job is left alone.
clear_queue ==
    /\ rq_status \in {"queued", "failed"}
    /\ rq_status' = "deleted"
    /\ UNCHANGED <<pc, current_iteration, messages, tool_calls, tc_idx,
                   logVars, resultVars, envVars, loopObs>>
    /\ UNCHANGED <<epVars, streamVars>>

\* RQJob.fetch and rq_job.refresh raise NoSuchJobError for this job id
NoSuchJob == rq_status \in {"none", "deleted"}

\* the RQ worker takes the job off the queue and calls scrape_product_job
WorkerStart ==
    /\ rq_status = "queued"
    /\ pc = "idle"
    /\ rq_status' = "started"
    /\ pc' = "load_client"
    /\ UNCHANGED <<current_iteration, messages, tool_calls, tc_idx, logVars,
                   resultVars, envVars, loopObs>>
    /\ UNCHANGED <<epVars, streamVars>>

\* scraper_task.py:47 load_azure_openai_client(), inside the try block
LoadClient ==
    /\ pc = "load_client"
    /\ \E ok \in BOOLEAN : pc' = IF ok THEN "emit_start" ELSE "except"
    /\ UNCHANGED <<rq_status, current_iteration, messages, tool_calls, tc_idx,
                   logVars, resultVars, envVars, loopObs>>
    /\ UNCHANGED <<epVars, streamVars>>

\* agentic_analyzer.py:104-105: emitter.emit_start()
LoopStart ==
    /\ pc = "emit_start"
    /\ LoopEmit(StartEvent, "setup", "except")
    /\ UNCHANGED <<rq_status, current_iteration, messages, tool_calls, tc_idx,
                   resultVars, envVars, model_calls, dispatches>>
    /\ UNCHANGED <<epVars, streamVars>>

\* lines 107-154: the registry, the handler and the first two messages
LoopSetup ==
    /\ pc = "setup"
    /\ messages' = <<Msg("system", <<>>, None, None, "PROMPT"),
                     Msg("user", <<>>, None, None, TaskText(initial_url))>>
    /\ pc' = "request"
    /\ UNCHANGED <<rq_status, current_iteration, tool_calls, tc_idx, logVars,
                   resultVars, envVars, loopObs>>
    /\ UNCHANGED <<epVars, streamVars>>

IsFinalIterationNever(iteration) == FALSE

\* line 178: if current_iteration == max_iterations
IsFinalIteration(iteration) == iteration = max_iterations

TurnNextRetriesOnRaise(iteration, response) ==
    IF response = "tools"
    THEN IF IsFinalIteration(iteration) THEN "forced" ELSE "reading"
    ELSE IF response = "record" THEN "loop_complete"
    ELSE IF response = "none" THEN "loop_error"
    ELSE "request"

TurnNextRetriesOnNone(iteration, response) ==
    IF response = "tools"
    THEN IF IsFinalIteration(iteration) THEN "forced" ELSE "reading"
    ELSE IF response = "record" THEN "loop_complete"
    ELSE IF response = "none" THEN "request"
    ELSE "except"

\* lines 176, 235-242: where a turn's response leads
TurnNext(iteration, response) ==
    IF response = "tools"
    THEN IF IsFinalIteration(iteration) THEN "forced" ELSE "reading"
    ELSE IF response = "record" THEN "loop_complete"
    ELSE IF response = "none" THEN "loop_error"
    ELSE "except"

\* lines 156-176 and 233-242: the loop header and one model turn, issued
\* with the tool catalog; the model requests tools, answers with a record,
\* answers with nothing parseable, or the call raises
ModelRequest ==
    /\ pc = "request"
    /\ current_iteration < max_iterations
    /\ current_iteration' = current_iteration + 1
    /\ messages' = AnnotateIteration(messages, current_iteration')
    /\ \E response \in TurnResponses(current_iteration') :
        /\ model_calls' =
              Append(model_calls,
                     ModelCall(current_iteration', TRUE, messages', response))
        /\ pc' = TurnNext(current_iteration', response)
        /\ tc_idx' = IF pc' = "reading" THEN 1 ELSE 0
        /\ IF response = "tools"
           THEN tool_calls' \in TurnBatches(current_iteration')
           ELSE tool_calls' = <<>>
    /\ UNCHANGED <<rq_status, logVars, resultVars, envVars, dispatches,
                   loop_events>>
    /\ UNCHANGED <<epVars, streamVars>>

ForcedNextIgnoresNone(response) ==
    IF response = "raise" THEN "except" ELSE "loop_complete"

\* lines 187-195: a record -> emit_complete and return; None -> RuntimeError
ForcedNext(response) ==
    IF response = "record" THEN "loop_complete" ELSE "except"

ForcedHistoryRestarted(msgs) == SubSeq(msgs, 1, 2)

\* line 183: messages=messages, the list the first request of the turn used
ForcedHistory(msgs) == msgs

\* lines 181-186: the forced request without tools on the last iteration
ForcedRequest ==
    /\ pc = "forced"
    /\ \E response \in {"record", "none", "raise"} :
        /\ model_calls' =
              Append(model_calls,
                     ModelCall(current_iteration, FALSE,
                               ForcedHistory(messages), response))
        /\ pc' = ForcedNext(response)
    /\ UNCHANGED <<rq_status, current_iteration, messages, tool_calls, tc_idx,
                   logVars, resultVars, envVars, dispatches, loop_events>>
    /\ UNCHANGED <<epVars, streamVars>>

\* lines 201-209: one pass of "for tc in tool_calls"; emit_reading(url)
\* announces the invocation with a tool_call event; whatever the pass raises
\* is passed over
EmitReading ==
    /\ pc = "reading"
    /\ LET next_pc == IF tc_idx = Len(tool_calls) THEN "dispatch"
                       ELSE "reading"
       IN IF EmitsReading(tool_calls[tc_idx])
          THEN LoopEmit(ToolCallEvent(tool_calls[tc_idx].name, "url",
                                      "Reading page"),
                        next_pc, next_pc)
          ELSE pc' = next_pc /\ UNCHANGED <<logVars, loop_events>>
    /\ tc_idx' = IF tc_idx = Len(tool_calls) THEN 0 ELSE tc_idx + 1
    /\ UNCHANGED <<rq_status, current_iteration, messages, tool_calls,
                   resultVars, envVars, model_calls, dispatches>>
    /\ UNCHANGED <<epVars, streamVars>>

\* lines 211-227: the assistant message is appended and execute_parallel
\* submits every call of the turn to a fresh executor
DispatchSubmit ==
    /\ pc = "dispatch"
    /\ ep_pc \in {"idle"}
    /\ messages' =
          Append(messages, Msg("assistant", tool_calls, None, None, None))
    /\ ep_tool_calls' = tool_calls
    /\ ep_queue' = [i \in 1..Len(tool_calls) |-> i]
    /\ ep_outcome' = [i \in 1..Len(tool_calls) |-> "pending"]
    /\ ep_collected' = {}
    /\ ep_results' = <<>>
    /\ ep_sorted' = <<>>
    /\ ep_invoked' = [i \in 1..Len(tool_calls) |-> 0]
    /\ ep_pc' = "running"
    /\ pc' = "executing"
    /\ dispatches' = dispatches + 1
    /\ UNCHANGED ep_running
    /\ UNCHANGED <<rq_status, current_iteration, tool_calls, tc_idx, logVars,
                   resultVars, envVars, model_calls, loop_events>>
    /\ UNCHANGED streamVars

\* lines 227-229: execute_parallel has returned (or a future's result
\* raised) and its locals are gone, the workers of its pool are not touched;
\* the tool messages are appended to the history
DispatchCollect ==
    /\ pc = "executing"
    /\ ep_pc \in {"returned", "aborted"}
    /\ IF ep_pc = "aborted"
       THEN pc' = "except" /\ UNCHANGED messages
       ELSE /\ messages' = messages \o build_tool_response_messages(ep_sorted)
            /\ pc' = "update"
    /\ ep_tool_calls' = <<>>
    /\ ep_outcome' = <<>>
    /\ ep_collected' = {}
    /\ ep_results' = <<>>
    /\ ep_sorted' = <<>>
    /\ ep_pc' = "idle"
    /\ ep_invoked' = <<>>
    /\ UNCHANGED <<ep_queue, ep_running>>
    /\ UNCHANGED <<rq_status, current_iteration, tool_calls, tc_idx, logVars,
                   resultVars, envVars, model_calls, dispatches, loop_events>>
    /\ UNCHANGED streamVars

\* line 232: emit_update("Analyzing...") reports the progress made with a
\* progress event, then the next pass of the loop; when the range is used
\* up the for-else branch reports the failure
EmitUpdate ==
    /\ pc = "update"
    /\ LoopEmit(ProgressEvent("Analyzing...", None),
                IF current_iteration < max_iterations THEN "request"
                ELSE "loop_error",
                "except")
    /\ UNCHANGED <<rq_status, current_iteration, messages, tool_calls, tc_idx,
                   resultVars, envVars, model_calls, dispatches>>
    /\ UNCHANGED <<epVars, streamVars>>

\* lines 191-192 and 239-240: emit_complete() and return snapshot
LoopComplete ==
    /\ pc = "loop_complete"
    /\ LoopEmit(CompleteEvent("All done! Your product information is ready",
                              "{}"),
                "store", "except")
    /\ UNCHANGED <<rq_status, current_iteration, messages, tool_calls, tc_idx,
                   resultVars, envVars, model_calls, dispatches>>
    /\ UNCHANGED <<epVars, streamVars>>

\* lines 246-252: emit_error(...) and raise RuntimeError
LoopError ==
    /\ pc = "loop_error"
    /\ LoopEmit(ErrorEvent("Failed to extract", ""), "except", "except")
    /\ UNCHANGED <<rq_status, current_iteration, messages, tool_calls, tc_idx,
                   resultVars, envVars, model_calls, dispatches>>
    /\ UNCHANGED <<epVars, streamVars>>

\* redis_client.set is called outside any try of its own: it may raise
StoreFaults == IF faults_left > 0 THEN {"none", "set"} ELSE {"none"}

\* scraper_task.py:58-62: redis_client.set(result_key, result_json, ex=86400)
StoreResult ==
    /\ pc = "store"
    /\ \E fault \in StoreFaults :
          IF fault = "set"
          THEN /\ pc' = "except"
               /\ faults_left' = faults_left - 1
               /\ UNCHANGED resultVars
          ELSE /\ result_store' = "record"
               /\ result_ttl' = ResultExpireSeconds
               /\ result_writes' = result_writes + 1
               /\ pc' = "job_complete"
               /\ UNCHANGED faults_left
    /\ UNCHANGED <<rq_status, current_iteration, messages, tool_calls, tc_idx,
                   events_log, event_count, emitted, emit_pending, events_ttl, received,
                   appended_at, other_log, envVars, loopObs>>
    /\ UNCHANGED <<epVars, streamVars>>

\* scraper_task.py:64-81: emitter.emit_complete(message, data) and return
JobComplete ==
    /\ pc = "job_complete"
    /\ Emit(CompleteEvent("All done! Your product information is ready",
                          "record"),
            "returned", "except")
    /\ UNCHANGED <<rq_status, current_iteration, messages, tool_calls, tc_idx,
                   resultVars, envVars, loopObs>>
    /\ UNCHANGED <<epVars, streamVars>>

\* scraper_task.py:83-94: emitter.emit_error(message, str(e)) and re-raise
JobExcept ==
    /\ pc = "except"
    /\ Emit(ErrorEvent("Scraping failed", "exception"), "raised", "raised")
    /\ UNCHANGED <<rq_status, current_iteration, messages, tool_calls, tc_idx,
                   resultVars, envVars, loopObs>>
    /\ UNCHANGED <<epVars, streamVars>>

\* the RQ worker records the return of the job function
WorkerFinish ==
    /\ pc = "returned"
    /\ rq_status' = "finished"
    /\ pc' = "done"
    /\ UNCHANGED <<current_iteration, messages, tool_calls, tc_idx, logVars,
                   resultVars, envVars, loopObs>>
    /\ UNCHANGED <<epVars, streamVars>>

\* the RQ worker records the exception raised by the job function
WorkerFail ==
    /\ pc = "raised"
    /\ rq_status' = "failed"
    /\ pc' = "done"
    /\ UNCHANGED <<current_iteration, messages, tool_calls, tc_idx, logVars,
                   resultVars, envVars, loopObs>>
    /\ UNCHANGED <<epVars, streamVars>>

\* the steps of a job whose run ends before its last iteration
ShortJobNext ==
    \/ scrape_product_async \/ clear_queue
    \/ WorkerStart \/ LoadClient \/ LoopStart \/ LoopSetup \/ ModelRequest
    \/ EmitReading \/ EmitUpdate
    \/ DispatchSubmit \/ EpStart \/ EpFinish \/ EpCollect \/ EpReturn
    \/ DispatchCollect
    \/ PersistExpire
    \/ LoopComplete \/ LoopError \/ StoreResult \/ JobComplete
    \/ JobExcept \/ WorkerFinish \/ WorkerFail

JobNext == ShortJobNext \/ ForcedRequest

(***************************************************************************)
(* One connection to GET /jobs/{job_id}/stream (api.py:209-298).           *)
(***************************************************************************)
NoId == -1

Notification(id, body) == [id |-> id, body |-> body]

WaitingNotice ==
    Notification(NoId, Event("waiting", "Waiting for job to start...", ""))
JobFailedNotice ==
    Notification(NoId, Event("error", "Job failed", "exc_info"))

\* "for idx, event_json in enumerate(...)": id = offset + idx, body = entry
Replay(list, offset) ==
    [i \in 1..Len(list) |-> Notification(offset + i - 1, list[i])]

\* redis_client.lrange(events_key, start, -1) leaves the list as it is
LogAfterRead(log) == log

\* everything of the job and its Redis keys except the list being read
readFrame ==
    <<rq_status, pc, current_iteration, messages, tool_calls, tc_idx,
      event_count, emitted, emit_pending, events_ttl, received, faults_left, appended_at,
      other_log, resultVars, envVars, loopObs>>

\* the locals of an event_generator that has not run yet (api.py:210)
IdleConnection ==
    [s_pc |-> "idle", events_json_list |-> <<>>, last_position |-> 0,
     poll_count |-> 0, sent |-> <<>>, s_out |-> <<>>, s_yield |-> "none",
     close_reason |-> "open"]

\* no request to the stream has been made; cap polls of a connection are
\* explored and read_faults Redis reads of the stream may fail
StreamStart(cap, read_faults) ==
    /\ other_conn = IdleConnection
    /\ s_pc = "idle"
    /\ events_json_list = <<>>
    /\ last_position = 0
    /\ poll_count = 0
    /\ sent = <<>>
    /\ s_out = <<>>
    /\ s_yield = "none"
    /\ close_reason = "open"
    /\ poll_cap = cap
    /\ read_faults_left = read_faults

StreamInit == StreamStart(MaxPollsModel, 0)

\* whether the Redis read of this step raises
ReadFaults == IF read_faults_left > 0 THEN {"none", "raise"} ELSE {"none"}

StreamErrorNotice ==
    Notification(NoId, Event("error", "Stream error", "exception"))

\* lines 291-298: the except block of the generator yields one error;
\* faulted tells whether an injected read fault was used up, count is the
\* value poll_count has when the exception is raised
StreamExceptAt(faulted, count) ==
    /\ sent' = Append(sent, StreamErrorNotice)
    /\ s_pc' = "closed"
    /\ close_reason' = "stream_error"
    /\ read_faults_left' =
          IF faulted THEN read_faults_left - 1 ELSE read_faults_left
    /\ poll_count' = count
    /\ s_yield' = "none"
    /\ UNCHANGED <<events_json_list, last_position, s_out>>

StreamExcept(faulted) == StreamExceptAt(faulted, poll_count)

\* the generator has been resumed and has read the log: the entries just
\* read are yielded one by one; without entries it goes on at next_pc
StreamBegin(notifications, send_pc, next_pc) ==
    /\ s_out' = notifications
    /\ s_pc' = IF notifications = <<>> THEN next_pc ELSE send_pc
    /\ s_yield' = "none"

\* lines 215-220: the first read of the log and, for an empty log, the
\* waiting notice
StreamConnect ==
    /\ s_pc = "idle"
    /\ \E fault \in ReadFaults :
          IF fault = "raise" THEN StreamExcept(TRUE)
          ELSE /\ events_json_list' = LRange(events_log, 0)
               /\ IF events_json_list' = <<>>
                  THEN /\ sent' = <<WaitingNotice>>
                       /\ s_pc' = "retry"
                       /\ UNCHANGED <<s_out, s_yield>>
                  ELSE /\ StreamBegin(Replay(events_json_list', 0),
                                      "replay", "fetch")
                       /\ UNCHANGED sent
               /\ UNCHANGED <<last_position, poll_count, close_reason,
                              read_faults_left>>
    /\ events_log' = LogAfterRead(events_log)
    /\ UNCHANGED <<epVars, readFrame>>

\* lines 221-223: after the one-second sleep, read once more
StreamRetry ==
    /\ s_pc = "retry"
    /\ \E fault \in ReadFaults :
          IF fault = "raise" THEN StreamExcept(TRUE)
          ELSE /\ events_json_list' = LRange(events_log, 0)
               /\ StreamBegin(Replay(events_json_list', 0), "replay", "fetch")
               /\ UNCHANGED <<sent, last_position, poll_count, close_reason,
                              read_faults_left>>
    /\ events_log' = LogAfterRead(events_log)
    /\ UNCHANGED <<epVars, readFrame>>

PollLoopContinuesForever(count) == TRUE

\* line 262: while poll_count < max_polls
PollLoopContinues(count) == count < max_polls

\* lines 277-283, 262: where a pass of the poll loop goes after its yields
AfterPollYields(count) ==
    IF count % StatusCheckEvery = 0 THEN "check"
    ELSE IF PollLoopContinues(count) THEN "poll"
    ELSE "drain"

\* where the generator goes on when the entries of a read are yielded
AfterYields(send_pc) ==
    IF send_pc = "replay" THEN "fetch"
    ELSE IF send_pc = "poll_send" THEN AfterPollYields(poll_count)
    ELSE "closed"

\* lines 226-228, 270-275, 286-289: one yield of the for loop, the "id:"
\* line of the next entry or its "data:" line, at which the generator is
\* suspended.  At the yield of the last "data:" line s_pc already names the
\* statement the generator goes on with when it is resumed; after the loop
\* of a poll that is last_position += len(new_events)
StreamYield ==
    /\ s_pc \in {"replay", "poll_send", "drain_send"}
    /\ IF s_yield # "id"
       THEN /\ s_yield' = "id"
            /\ UNCHANGED <<sent, s_out, s_pc, last_position, close_reason>>
       ELSE /\ s_yield' = "data"
            /\ sent' = Append(sent, Head(s_out))
            /\ s_out' = Tail(s_out)
            /\ IF s_out' # <<>>
               THEN UNCHANGED <<s_pc, last_position, close_reason>>
               ELSE /\ s_pc' = AfterYields(s_pc)
                    /\ last_position' =
                          IF s_pc = "poll_send" THEN Head(s_out).id + 1
                          ELSE last_position
                    /\ close_reason' =
                          IF s_pc' = "drain" THEN "max_polls"
                          ELSE close_reason
    /\ UNCHANGED <<events_json_list, poll_count, read_faults_left>>
    /\ UNCHANGED <<epVars, jobVars>>

NotFoundNoticesError == <<JobFailedNotice>>

\* lines 233-241: NoSuchJobError is logged and the generator returns
NotFoundNotices == <<>>

\* lines 230-241: RQJob.fetch; whatever it raises is caught by "except
\* Exception" and ends the stream
StreamFetchJob ==
    /\ s_pc = "fetch"
    /\ \E fault \in ReadFaults :
       IF NoSuchJob \/ fault = "raise"
       THEN /\ sent' = sent \o NotFoundNotices
            /\ s_pc' = "closed" /\ close_reason' = "not_found"
            /\ read_faults_left' =
                  IF fault = "raise" THEN read_faults_left - 1
                  ELSE read_faults_left
       ELSE /\ s_pc' = "status"
            /\ UNCHANGED <<sent, close_reason, read_faults_left>>
    /\ s_yield' = "none"
    /\ UNCHANGED <<events_json_list, last_position, poll_count, s_out>>
    /\ UNCHANGED <<epVars, jobVars>>

InitialPositionZero(list) == 0

\* line 258: last_position = len(events_json_list)
InitialPosition(list) == Len(list)

\* lines 243-259: rq_job.is_finished / is_failed read the status of the job
\* from Redis, outside the try of the fetch; a job deleted since the fetch
\* has no status and is taken as still running
StreamStatus ==
    /\ s_pc = "status"
    /\ \E fault \in ReadFaults :
       IF fault = "raise"
       THEN StreamExcept(TRUE)
       ELSE IF rq_status = "finished"
       THEN /\ s_pc' = "closed" /\ close_reason' = "finished"
            /\ UNCHANGED <<sent, last_position, read_faults_left,
                           events_json_list, poll_count, s_out, s_yield>>
       ELSE IF rq_status = "failed"
       THEN /\ sent' = Append(sent, JobFailedNotice)
            /\ s_pc' = "closed" /\ close_reason' = "failed"
            /\ UNCHANGED <<last_position, read_faults_left,
                           events_json_list, poll_count, s_out, s_yield>>
       ELSE /\ last_position' = InitialPosition(events_json_list)
            /\ s_pc' = "poll"
            /\ UNCHANGED <<sent, close_reason, read_faults_left,
                           events_json_list, poll_count, s_out, s_yield>>
    /\ UNCHANGED <<epVars, jobVars>>

\* lines 262-267: one pass of the poll loop up to its read of the log;
\* poll_count += 1 (line 264) comes before the read (line 267)
StreamPoll ==
    /\ s_pc = "poll"
    /\ PollLoopContinues(poll_count)
    /\ poll_count < poll_cap
    /\ \E fault \in ReadFaults :
          IF fault = "raise" THEN StreamExceptAt(TRUE, poll_count + 1)
          ELSE /\ poll_count' = poll_count + 1
               /\ StreamBegin(Replay(LRange(events_log, last_position),
                                     last_position),
                              "poll_send", AfterPollYields(poll_count'))
               /\ close_reason' = IF s_pc' = "drain" THEN "max_polls"
                                  ELSE close_reason
               /\ UNCHANGED <<sent, last_position, events_json_list,
                              read_faults_left>>
    /\ events_log' = LogAfterRead(events_log)
    /\ UNCHANGED <<epVars, readFrame>>

\* lines 278-279: rq_job.refresh() reads the hash of the job from Redis and
\* raises NoSuchJobError when the job is gone
StreamRefresh ==
    /\ s_pc = "check"
    /\ \E fault \in ReadFaults :
          IF fault = "raise" \/ NoSuchJob THEN StreamExcept(fault = "raise")
          ELSE /\ s_pc' = "is_finished"
               /\ s_yield' = "none"
               /\ UNCHANGED <<events_json_list, last_position, poll_count,
                              sent, read_faults_left, s_out, close_reason>>
    /\ UNCHANGED <<epVars, jobVars>>

\* line 280, left operand: rq_job.is_finished reads the status from Redis
\* once more; a job deleted since the refresh has no status, which is not
\* "finished"
StreamIsFinished ==
    /\ s_pc = "is_finished"
    /\ \E fault \in ReadFaults :
          IF fault = "raise" THEN StreamExcept(TRUE)
          ELSE /\ IF rq_status = "finished"
                  THEN s_pc' = "drain" /\ close_reason' = "job_ended"
                  ELSE s_pc' = "is_failed" /\ UNCHANGED close_reason
               /\ UNCHANGED <<events_json_list, last_position, poll_count,
                              sent, read_faults_left, s_out, s_yield>>
    /\ UNCHANGED <<epVars, jobVars>>

\* lines 280-282 and 262: rq_job.is_failed, the third read, is evaluated
\* when is_finished was false; "failed" breaks out of the loop, anything
\* else (no status included) goes back to the loop condition
StreamIsFailed ==
    /\ s_pc = "is_failed"
    /\ \E fault \in ReadFaults :
          IF fault = "raise" THEN StreamExcept(TRUE)
          ELSE /\ IF rq_status = "failed"
                  THEN s_pc' = "drain" /\ close_reason' = "job_ended"
                  ELSE IF PollLoopContinues(poll_count)
                  THEN s_pc' = "poll" /\ UNCHANGED close_reason
                  ELSE s_pc' = "drain" /\ close_reason' = "max_polls"
               /\ UNCHANGED <<events_json_list, last_position, poll_count,
                              sent, read_faults_left, s_out, s_yield>>
    /\ UNCHANGED <<epVars, jobVars>>

\* line 285: the final read after the poll loop
StreamDrain ==
    /\ s_pc = "drain"
    /\ \E fault \in ReadFaults :
          IF fault = "raise" THEN StreamExcept(TRUE)
          ELSE /\ StreamBegin(Replay(LRange(events_log, last_position),
                                     last_position),
                              "drain_send", "closed")
               /\ UNCHANGED <<sent, last_position, events_json_list,
                              poll_count, close_reason, read_faults_left>>
    /\ events_log' = LogAfterRead(events_log)
    /\ UNCHANGED <<epVars, readFrame>>

\* the client drops the connection (or opens a new one after a close)
ClientDisconnect ==
    /\ s_pc # "idle"
    /\ s_pc' = "idle"
    /\ events_json_list' = <<>>
    /\ last_position' = 0
    /\ poll_count' = 0
    /\ sent' = <<>>
    /\ s_out' = <<>>
    /\ s_yield' = "none"
    /\ close_reason' = "open"
    /\ UNCHANGED read_faults_left
    /\ UNCHANGED <<epVars, jobVars>>

\* the locals of the connection whose generator is running
ThisConnection ==
    [s_pc |-> s_pc, events_json_list |-> events_json_list,
     last_position |-> last_position, poll_count |-> poll_count,
     sent |-> sent, s_out |-> s_out, s_yield |-> s_yield,
     close_reason |-> close_reason]

\* the generator is not running: the request has not arrived, the generator
\* has returned, it waits in asyncio.sleep (lines 220, 263), or it is
\* suspended at one of the yields of a for loop (lines 226-228, 270-275,
\* 286-289), the yield of the last entry of a read included.  A generator
\* that has just read the log and has not yet yielded is running
StreamSuspended ==
    \/ s_pc \in {"idle", "closed", "retry", "poll"}
    \/ s_yield \in {"id", "data"}

\* api.py:209-210: every request runs an event_generator of its own, all on
\* the one event loop of the server.  While the generator of this
\* connection is suspended the event loop goes on with the generator of the
\* other connection to the same job, whose request may arrive before,
\* while or after this connection is open
StreamSwitch ==
    /\ StreamSuspended
    /\ other_conn' = ThisConnection
    /\ s_pc' = other_conn.s_pc
    /\ events_json_list' = other_conn.events_json_list
    /\ last_position' = other_conn.last_position
    /\ poll_count' = other_conn.poll_count
    /\ sent' = other_conn.sent
    /\ s_out' = other_conn.s_out
    /\ s_yield' = other_conn.s_yield
    /\ close_reason' = other_conn.close_reason
    /\ UNCHANGED read_faults_left
    /\ UNCHANGED <<rq_status, pc, current_iteration, messages, tool_calls,
                   tc_idx, logVars, resultVars, loopObs, llm_free,
                   llm_tool_turns, callback, now, other_calls, poll_cap, initial_url,
                   regVars, extVars>>
    /\ UNCHANGED epVars

StreamSteps ==
    \/ StreamConnect \/ StreamRetry \/ StreamYield \/ StreamFetchJob
    \/ StreamStatus \/ StreamPoll \/ StreamRefresh \/ StreamIsFinished
    \/ StreamIsFailed \/ StreamDrain

StreamNext == StreamSteps \/ ClientDisconnect

(***************************************************************************)
(* ToolRegistry (tool_handler.py:19-45). A Python dict is a sequence of    *)
(* entries with distinct names, in insertion order.                        *)
(***************************************************************************)
RegistryNames == {"fetch_web_content", "search_web"}
RegistrySchemas == {"schema_1", "schema_2"}
RegistryHandlers == {"handler_1", "handler_2"}

DictKeys(d) == {d[i].name : i \in 1..Len(d)}

DictSetAppends(d, name, value) ==
    Append(d, [name |-> name, value |-> value])

\* d[name] = value: an existing key keeps its place and gets the new value
DictSet(d, name, value) ==
    IF name \in DictKeys(d)
    THEN [i \in 1..Len(d) |->
             IF d[i].name = name THEN [name |-> name, value |-> value]
             ELSE d[i]]
    ELSE Append(d, [name |-> name, value |-> value])

\* d.get(name)
DictGet(d, name) ==
    IF name \in DictKeys(d)
    THEN d[CHOOSE i \in 1..Len(d) : d[i].name = name].value
    ELSE None

\* ToolRegistry.register
register ==
    /\ Len(registered) < MaxRegisters
    /\ \E name \in RegistryNames, schema \in RegistrySchemas,
          handler \in RegistryHandlers :
          /\ _tools' = DictSet(_tools, name, schema)
          /\ _handlers' = DictSet(_handlers, name, handler)
          /\ registered' =
                Append(registered,
                       [name |-> name, schema |-> schema, handler |-> handler])
    /\ UNCHANGED <<llm_free, llm_tool_turns, callback, now, other_calls,
                   poll_cap, initial_url, other_conn, extVars>>
    /\ UNCHANGED <<rq_status, pc, current_iteration, messages, tool_calls,
                   tc_idx, logVars, resultVars, loopObs>>
    /\ UNCHANGED <<epVars, streamVars>>

get_schema(name) == DictGet(_tools, name)

\* ToolRegistry.get_handler on the registry built by the register calls
get_registered_handler(name) == DictGet(_handlers, name)

get_all_schemas ==
    [i \in 1..Len(_tools) |-> [type |-> "function", function |-> _tools[i].value]]

has_tool(name) == name \in DictKeys(_tools)

(***************************************************************************)
(* RedisEventEmitter called directly (as tests/test_redis_event_emitter.py *)
(* does), with or without a callback.                                      *)
(***************************************************************************)
EmitterReady ==
    /\ rq_status = "none"
    /\ pc = "idle"
    /\ Len(emitted) < MaxEmits

EmitterCall(event) ==
    /\ Emit(event, "idle", "emit_raised")
    /\ UNCHANGED <<rq_status, current_iteration, messages, tool_calls, tc_idx,
                   resultVars, envVars, loopObs>>
    /\ UNCHANGED <<epVars, streamVars>>

\* emit_complete: data=data or {}
CompleteData(data) == IF data = None THEN "{}" ELSE data

EmitterEvents ==
    {StartEvent, ReadingEvent("url"), UpdateEvent("Analyzing..."),
     CompleteEvent("All done! Your product information is ready", "record"),
     ErrorEvent("Scraping failed", "exception")}

emit_start ==
    /\ EmitterReady
    /\ EmitterCall(StartEvent)

emit_update ==
    \E message \in {"Analyzing..."} :
        /\ EmitterReady
        /\ EmitterCall(UpdateEvent(message))

emit_reading ==
    \E url \in {"url"} :
        /\ EmitterReady
        /\ EmitterCall(ReadingEvent(url))

emit_complete ==
    \E data \in {None, "record"} :
        /\ EmitterReady
        /\ EmitterCall(CompleteEvent(
               "All done! Your product information is ready",
               CompleteData(data)))

emit_error ==
    \E error \in {"exception"} :
        /\ EmitterReady
        /\ EmitterCall(ErrorEvent("Scraping failed", error))

emit_event ==
    \E event \in EmitterEvents :
        /\ EmitterReady
        /\ EmitterCall(event)

\* The arguments string handed to emit_tool_call is one of:
\*   "url"       {"url": u}, u a non-empty string
\*   "url_empty" {"url": ""}
\*   "url_null"  {"url": null}
\*   "query"     a JSON object without the key url
\*   "badjson"   not JSON
ToolCallArguments == {"url", "url_empty", "url_null", "query", "badjson"}

\* event_emitter.py:45: args.get("url", "unknown") is the value stored
\* under the key url, be it empty or null, and "unknown" only when the
\* arguments have no such key
UrlOrUnknown(arguments) ==
    IF arguments = "url" THEN "url"
    ELSE IF arguments = "url_empty" THEN ""
    ELSE IF arguments = "url_null" THEN None
    ELSE "unknown"

\* event_emitter.py:42-63: the event emit_tool_call hands to the callback
ToolCallEventOf(tool_name, arguments) ==
    IF tool_name = "fetch_page_text" /\ ArgsParse(arguments)
    THEN ToolCallEvent(tool_name, UrlOrUnknown(arguments),
                       "Reading page: " \o UrlOrUnknown(arguments))
    ELSE ToolCallEvent(tool_name, None, "Calling tool: " \o tool_name)

\* the events the callback received from the methods that persist, and the
\* number it received from the inherited methods, which do not
CallbackOnlyKinds == {"progress", "tool_call", "tool_result"}
ReceivedPersisted ==
    SelectSeq(received, LAMBDA e : e.event \notin CallbackOnlyKinds)
ReceivedUnpersisted == Len(received) - Len(ReceivedPersisted)

\* a method RedisEventEmitter inherits from EventEmitter: the event goes to
\* the callback, if one is attached, and nowhere else
CallbackOnly(event) ==
    /\ rq_status = "none"
    /\ pc = "idle"
    /\ received' = InvokeCallback(callback, received, event)
    /\ UNCHANGED <<rq_status, pc, current_iteration, messages, tool_calls,
                   tc_idx, events_log, event_count, emitted, emit_pending,
                   events_ttl, faults_left, appended_at, other_log,
                   resultVars, envVars, loopObs>>
    /\ UNCHANGED <<epVars, streamVars>>

\* event_emitter.py:26-29
emit_progress ==
    \E iteration \in {"1"} :
        /\ ReceivedUnpersisted < MaxCallbackOnly
        /\ CallbackOnly(ProgressEvent("Working", iteration))

\* event_emitter.py:31-63
emit_tool_call ==
    \E tool_name \in {"fetch_page_text", "fetch_web_content"},
       arguments \in ToolCallArguments :
        /\ ReceivedUnpersisted < MaxCallbackOnly
        /\ CallbackOnly(ToolCallEventOf(tool_name, arguments))

\* event_emitter.py:65-77
emit_tool_result ==
    \E success \in BOOLEAN :
        /\ ReceivedUnpersisted < MaxCallbackOnly
        /\ CallbackOnly(ToolResultEvent(
               "call_1", success, IF success THEN "Completed" ELSE "Failed"))

\* time passes: the remaining life of the events key shrinks
ClockTick ==
    /\ rq_status = "none"
    /\ now < MaxTicks
    /\ now' = now + 1
    /\ events_ttl' = IF events_ttl > 0 THEN events_ttl - 1 ELSE events_ttl
    /\ UNCHANGED <<llm_free, llm_tool_turns, callback, other_calls, poll_cap, initial_url,
                   other_conn, regVars, extVars>>
    /\ UNCHANGED <<rq_status, pc, current_iteration, messages, tool_calls,
                   tc_idx, events_log, event_count, emitted, emit_pending, received,
                   faults_left, appended_at, other_log, resultVars, loopObs>>
    /\ UNCHANGED <<epVars, streamVars>>

\* clear_events: redis.delete(events_key) of this job's emitter
clear_events ==
    /\ rq_status = "none"
    /\ pc = "idle"
    /\ events_log' = <<>>
    /\ events_ttl' = 0
    /\ other_log' = IF events_key(OtherJob) = events_key(ThisJob)
                    THEN <<>> ELSE other_log
    /\ UNCHANGED <<rq_status, pc, current_iteration, messages, tool_calls,
                   tc_idx, event_count, emitted, emit_pending, received, faults_left,
                   appended_at, resultVars, envVars, loopObs>>
    /\ UNCHANGED <<epVars, streamVars>>

\* the frame of a call on the emitter of the other job
OtherEmitterFrame ==
    /\ other_calls < MaxEmits
    /\ other_calls' = other_calls + 1
    /\ UNCHANGED <<llm_free, llm_tool_turns, callback, now, poll_cap, initial_url,
                   other_conn, regVars, extVars>>
    /\ UNCHANGED <<rq_status, pc, current_iteration, messages, tool_calls,
                   tc_idx, event_count, emitted, emit_pending, events_ttl, received,
                   faults_left, appended_at, resultVars, loopObs>>
    /\ UNCHANGED <<epVars, streamVars>>

\* emit_start on a RedisEventEmitter constructed for the other job id
other_emit_start ==
    /\ OtherEmitterFrame
    /\ other_log' = _persist_event(other_log, StartEvent)
    /\ events_log' = IF events_key(OtherJob) = events_key(ThisJob)
                     THEN other_log' ELSE events_log

\* clear_events on the emitter of the other job
other_clear_events ==
    /\ OtherEmitterFrame
    /\ other_log' = <<>>
    /\ events_log' = IF events_key(OtherJob) = events_key(ThisJob)
                     THEN <<>> ELSE events_log

\* the calls of the emit_* methods and the steps that complete them
EmitterCalls ==
    \/ emit_start \/ emit_update \/ emit_reading \/ emit_complete
    \/ emit_error \/ emit_event \/ PersistExpire
\* with the callback step and the methods that only call the callback
EmitterNext ==
    \/ EmitterCalls \/ EmitCallback
    \/ emit_progress \/ emit_tool_call \/ emit_tool_result

(***************************************************************************)
(* Specifications.                                                         *)
(***************************************************************************)
\* one execute_parallel batch
InitTools == EpInit /\ JobInit("none", 0, max_iterations, 0, None) /\ StreamInit
NextTools == EpStart \/ EpFinish \/ EpCollect \/ EpReturn
SpecTools == InitTools /\ [][NextTools]_vars

\* one execute_parallel batch of up to MaxPoolBatch search_web calls, more
\* than the executor has workers; the query of the first call is a string
\* or not; every started thread keeps running
PoolBatches ==
    {[i \in 1..k |->
         [id |-> i, name |-> "search_web",
          arguments |-> IF i = 1 THEN first ELSE "query"]]
        : k \in 1..MaxPoolBatch, first \in QueryArguments}
InitPool ==
    /\ ep_tool_calls \in PoolBatches
    /\ ep_queue = [i \in 1..Len(ep_tool_calls) |-> i]
    /\ ep_running = {}
    /\ ep_outcome = [i \in 1..Len(ep_tool_calls) |-> "pending"]
    /\ ep_collected = {}
    /\ ep_results = <<>>
    /\ ep_sorted = <<>>
    /\ ep_pc = "running"
    /\ ep_invoked = [i \in 1..Len(ep_tool_calls) |-> 0]
    /\ JobInit("none", 0, max_iterations, 0, None)
    /\ StreamInit
SpecPool == InitPool /\ [][NextTools]_vars /\ WF_vars(NextTools)

\* one job run for either URL, the first MaxFreeTurns tool turns chosen
\* freely
InitLoop ==
    /\ EpIdle
    /\ \E url \in InitialUrls :
          JobInitFor(url, "none", MaxFreeTurns, max_iterations, 0, None)
    /\ StreamInit
SpecLoop == InitLoop /\ [][JobNext]_vars
\* the same run when the worker, the model and the handlers all make progress
SpecLoopFair == SpecLoop /\ WF_vars(JobNext)

\* one job id, unknown until the job is enqueued, whose model asks for
\* tools in at most MaxStreamToolTurns turns, and one stream connection
Init ==
    /\ EpIdle
    /\ JobInit("none", 0, MaxStreamToolTurns, 0, None)
    /\ StreamInit
Next == ShortJobNext \/ StreamNext
Spec == Init /\ [][Next]_vars

\* a queued job whose model answers its first request, and two connections
\* to its stream that are served in any interleaving, each up to the first
\* status check of its poll loop
InitStreams ==
    /\ EpIdle
    /\ JobInit("queued", 0, 0, 0, None)
    /\ StreamStart(StatusCheckEvery, 0)
NextStreams ==
    \/ WorkerStart \/ LoadClient \/ LoopStart \/ LoopSetup \/ ModelRequest
    \/ PersistExpire
    \/ LoopComplete \/ LoopError \/ StoreResult \/ JobComplete
    \/ JobExcept \/ WorkerFinish \/ WorkerFail
    \/ StreamSteps \/ StreamSwitch
SpecStreams == InitStreams /\ [][NextStreams]_vars

\* direct calls of the emitter's methods, with and without a callback
InitEmitter ==
    /\ EpIdle
    /\ \E cb \in {None, "attached"} : JobInit("none", 0, 0, 0, cb)
    /\ StreamInit
NextEmitter == EmitterNext \/ ClockTick
SpecEmitter == InitEmitter /\ [][NextEmitter]_vars

\* direct calls of the emitter's methods while Redis writes may fail
InitEmitterFault ==
    /\ EpIdle
    /\ \E cb \in {None, "attached"} : JobInit("none", 0, 0, MaxFaults, cb)
    /\ StreamInit
SpecEmitterFault == InitEmitterFault /\ [][NextEmitter]_vars

\* the emitters of two jobs on one Redis, called in any interleaving
\* nothing has been called yet: no job, no connection, no request
InitNoJob ==
    /\ EpIdle
    /\ JobInit("none", 0, 0, 0, None)
    /\ StreamInit
NextTwoJobs ==
    \/ EmitterCalls \/ clear_events \/ other_emit_start \/ other_clear_events
SpecTwoJobs == InitNoJob /\ [][NextTwoJobs]_vars

\* a job whose model call never returns, if its client loads at all, which
\* clear_queue may remove; its stream is served whenever a connection is
\* open, the client may drop the connection and connect again, and
\* MaxFaults reads of the stream may fail
InitTimeout ==
    /\ EpIdle
    /\ JobInit("queued", 0, 0, 0, None)
    /\ StreamStart(max_polls, MaxFaults)
NextTimeout ==
    \/ clear_queue
    \/ WorkerStart \/ LoadClient \/ LoopStart \/ LoopSetup \/ PersistExpire
    \/ JobExcept \/ WorkerFail
    \/ StreamNext
SpecTimeout ==
    InitTimeout /\ [][NextTimeout]_vars /\ WF_vars(StreamSteps)

(***************************************************************************)
(* search_web (ai/tools/search.py) and the TavilyClientWithFallback         *)
(* (config/tavily.py) it shares between the threads of a batch.  Every     *)
(* statement that reads or writes the module global or a field of the      *)
(* client is a step of its own, because another thread can run between     *)
(* two of them.  Keys are numbered from 0.                                 *)
(***************************************************************************)
tavilyFrame ==
    <<rq_status, pc, current_iteration, messages, tool_calls, tc_idx, logVars,
      resultVars, loopObs, llm_free, llm_tool_turns, callback, now,
      other_calls, poll_cap, initial_url, other_conn, regVars, directVars>>

\* len(self.api_keys)
len_api_keys == MaxKeys

\* lines 34-46: the error text or type name contains a rate-limit phrase
_is_rate_limit_error(error) == error = "rate_limit"

\* the query argument of search_web: a non-blank string of at most 400
\* characters, an empty or blank string, a longer string, a truthy value
\* that is no string (5, ["a"], True), a falsy value that is no string
\* (0, None, [], False)
SearchQueries == {"text", "blank", "too_long", "non_string", "falsy"}

\* search.py:21-68: how search_web ends for the query and for the way the
\* search of the client ended: lines 23-27 run before the try statement.
\* "not query" is true of a falsy value, which is answered like the empty
\* string; for a truthy value that is no string query.strip() raises out
\* of search_web
search_web(query, result) ==
    IF query = "non_string" THEN "raised"
    ELSE IF query \in {"blank", "too_long", "falsy"} THEN "failure_payload"
    ELSE IF result = "returned" THEN "success_payload"
    ELSE "failure_payload"

\* search.py:21-35: a handler thread enters search_web
SearchWebBegin ==
    /\ searches < MaxSearches
    /\ \E t \in SearchThreads, query \in SearchQueries :
          /\ t_pc[t] = "idle"
          /\ t_result' = [t_result EXCEPT ![t] = "none"]
          /\ t_calls' = [t_calls EXCEPT ![t] = 0]
          /\ t_key' = [t_key EXCEPT ![t] = -1]
          /\ IF query = "text"
             THEN /\ t_pc' = [t_pc EXCEPT ![t] = "get_client"]
                  /\ t_payload' = [t_payload EXCEPT ![t] = "none"]
             ELSE /\ t_payload' =
                        [t_payload EXCEPT ![t] = search_web(query, "none")]
                  /\ UNCHANGED t_pc
    /\ searches' = searches + 1
    /\ UNCHANGED <<_tavily_client, current_key_index, client_key, t_client,
                   t_attempts, t_next, t_built, limited_keys>>
    /\ UNCHANGED <<epVars, tavilyFrame, streamVars>>

\* search.py:16: "if _tavily_client is None"
GetClientCheck ==
    /\ \E t \in SearchThreads :
          /\ t_pc[t] = "get_client"
          /\ t_pc' = [t_pc EXCEPT ![t] = IF _tavily_client = NoClient
                                         THEN "create" ELSE "get_return"]
    /\ UNCHANGED <<_tavily_client, current_key_index, client_key, t_client,
                   t_attempts, t_next, t_built, t_key, t_calls, t_result,
                   t_payload, limited_keys, searches>>
    /\ UNCHANGED <<epVars, tavilyFrame, streamVars>>

\* search.py:17 and tavily.py:15-21, 99-107: a new client, on the first
\* key, is stored in the global
GetClientCreate ==
    /\ \E t \in SearchThreads :
          /\ t_pc[t] = "create"
          /\ current_key_index' = [current_key_index EXCEPT ![t] = 0]
          /\ client_key' = [client_key EXCEPT ![t] = 0]
          /\ _tavily_client' = t
          /\ t_pc' = [t_pc EXCEPT ![t] = "get_return"]
    /\ UNCHANGED <<t_client, t_attempts, t_next, t_built, t_key, t_calls,
                   t_result, t_payload, limited_keys, searches>>
    /\ UNCHANGED <<epVars, tavilyFrame, streamVars>>

\* search.py:18 and 36: "return _tavily_client" reads the global again
GetClientReturn ==
    /\ \E t \in SearchThreads :
          /\ t_pc[t] = "get_return"
          /\ t_client' = [t_client EXCEPT ![t] = _tavily_client]
          /\ t_pc' = [t_pc EXCEPT ![t] = "search"]
    /\ UNCHANGED <<_tavily_client, current_key_index, client_key, t_attempts,
                   t_next, t_built, t_key, t_calls, t_result, t_payload,
                   limited_keys, searches>>
    /\ UNCHANGED <<epVars, tavilyFrame, streamVars>>

\* tavily.py:48-51: search is entered
SearchBegin ==
    /\ \E t \in SearchThreads :
          /\ t_pc[t] = "search"
          /\ t_pc' = [t_pc EXCEPT ![t] = "loop"]
          /\ t_attempts' = [t_attempts EXCEPT ![t] = 0]
          /\ t_result' = [t_result EXCEPT ![t] = "running"]
    /\ UNCHANGED <<_tavily_client, current_key_index, client_key, t_client,
                   t_next, t_built, t_key, t_calls, t_payload, limited_keys,
                   searches>>
    /\ UNCHANGED <<epVars, tavilyFrame, streamVars>>

\* the search ends for the thread and search_web returns (search.py:37-68)
SearchEnds(t, result) ==
    /\ t_result' = [t_result EXCEPT ![t] = result]
    /\ t_payload' = [t_payload EXCEPT ![t] = search_web("text", result)]
    /\ t_pc' = [t_pc EXCEPT ![t] = "idle"]

\* lines 53-63 and 72-76: one pass of the while loop up to the decision
\* about the error; the call goes out with the key self._client holds
SearchAttempt ==
    /\ \E t \in SearchThreads :
          /\ t_pc[t] = "loop"
          /\ IF t_attempts[t] < len_api_keys
             THEN \E error \in {"ok", "rate_limit", "server_error"} :
                    /\ t_calls' = [t_calls EXCEPT ![t] = @ + 1]
                    /\ t_key' = [t_key EXCEPT ![t] = client_key[t_client[t]]]
                    /\ limited_keys' =
                          IF error = "rate_limit"
                          THEN limited_keys \cup {client_key[t_client[t]]}
                          ELSE limited_keys
                    /\ IF error = "ok"
                       THEN SearchEnds(t, "returned")
                       ELSE IF _is_rate_limit_error(error)
                       THEN /\ t_pc' = [t_pc EXCEPT ![t] = "switch"]
                            /\ UNCHANGED <<t_result, t_payload>>
                       ELSE SearchEnds(t, "reraised")
             ELSE /\ SearchEnds(t, "RuntimeError")
                  /\ UNCHANGED <<t_calls, t_key, limited_keys>>
    /\ UNCHANGED <<_tavily_client, current_key_index, client_key, t_client,
                   t_attempts, t_next, t_built, searches>>
    /\ UNCHANGED <<epVars, tavilyFrame, streamVars>>

\* lines 25-27 and 69-71: next_index is computed; with no key left the
\* switch returns False and search raises RuntimeError
SwitchRead ==
    /\ \E t \in SearchThreads :
          /\ t_pc[t] = "switch"
          /\ LET next_index == current_key_index[t_client[t]] + 1 IN
                IF next_index >= len_api_keys
                THEN /\ SearchEnds(t, "RuntimeError")
                     /\ UNCHANGED t_next
                ELSE /\ t_next' = [t_next EXCEPT ![t] = next_index]
                     /\ t_pc' = [t_pc EXCEPT ![t] = "switch_index"]
                     /\ UNCHANGED <<t_result, t_payload>>
    /\ UNCHANGED <<_tavily_client, current_key_index, client_key, t_client,
                   t_attempts, t_built, t_key, t_calls, limited_keys,
                   searches>>
    /\ UNCHANGED <<epVars, tavilyFrame, streamVars>>

\* line 29: self.current_key_index = next_index
SwitchWrite ==
    /\ \E t \in SearchThreads :
          /\ t_pc[t] = "switch_index"
          /\ current_key_index' =
                [current_key_index EXCEPT ![t_client[t]] = t_next[t]]
          /\ t_pc' = [t_pc EXCEPT ![t] = "switch_build"]
    /\ UNCHANGED <<_tavily_client, client_key, t_client, t_attempts, t_next,
                   t_built, t_key, t_calls, t_result, t_payload,
                   limited_keys, searches>>
    /\ UNCHANGED <<epVars, tavilyFrame, streamVars>>

\* line 30, right-hand side: self.current_key_index is read again and a
\* TavilyClient is built with the key at that index
SwitchBuild ==
    /\ \E t \in SearchThreads :
          /\ t_pc[t] = "switch_build"
          /\ t_built' = [t_built EXCEPT ![t] = current_key_index[t_client[t]]]
          /\ t_pc' = [t_pc EXCEPT ![t] = "switch_client"]
    /\ UNCHANGED <<_tavily_client, current_key_index, client_key, t_client,
                   t_attempts, t_next, t_key, t_calls, t_result, t_payload,
                   limited_keys, searches>>
    /\ UNCHANGED <<epVars, tavilyFrame, streamVars>>

\* lines 30-32 and 66-68: the new TavilyClient is assigned to self._client,
\* the switch returns True, attempts grows and the loop continues
SwitchClient ==
    /\ \E t \in SearchThreads :
          /\ t_pc[t] = "switch_client"
          /\ client_key' = [client_key EXCEPT ![t_client[t]] = t_built[t]]
          /\ t_attempts' = [t_attempts EXCEPT ![t] = @ + 1]
          /\ t_next' = [t_next EXCEPT ![t] = 0]
          /\ t_built' = [t_built EXCEPT ![t] = 0]
          /\ t_pc' = [t_pc EXCEPT ![t] = "loop"]
    /\ UNCHANGED <<_tavily_client, current_key_index, t_client, t_key,
                   t_calls, t_result, t_payload, limited_keys, searches>>
    /\ UNCHANGED <<epVars, tavilyFrame, streamVars>>

\* search_web handlers of one batch, run by the threads of execute_parallel
SpecSearchThreads ==
    /\ InitNoJob
    /\ [][SearchWebBegin \/ GetClientCheck \/ GetClientCreate
            \/ GetClientReturn \/ SearchBegin \/ SearchAttempt \/ SwitchRead
            \/ SwitchWrite \/ SwitchBuild \/ SwitchClient]_vars

(***************************************************************************)
(* POST /scrape/stream (api.py:67-133): the scraper runs in an executor    *)
(* thread and hands events to event_callback; stream_events polls the      *)
(* buffer until the task is done.                                          *)
(***************************************************************************)
directFrame ==
    <<rq_status, pc, current_iteration, messages, tool_calls, tc_idx, logVars,
      resultVars, loopObs, llm_free, llm_tool_turns, callback, now,
      other_calls, poll_cap, initial_url, other_conn, regVars, tavilyVars>>

\* the kinds of event the scraper hands to the callback: those of an Event
BufferedKinds ==
    {"start", "tool_call", "tool_result", "progress", "complete", "error"}

\* lines 87-97: run_in_executor(None, scrape_and_analyze, ...)
DirectStart ==
    /\ d_pc = "idle"
    /\ scrape_task = "none"
    /\ scrape_task' = "running"
    /\ d_pc' = "while"
    /\ UNCHANGED <<scrape_task_done, events_buffer, d_last_position, d_sent>>
    /\ UNCHANGED <<epVars, directFrame, streamVars>>

\* lines 76-78: the scraper thread calls event_callback(event)
ScrapeCallback ==
    /\ scrape_task = "running"
    /\ Len(events_buffer) < MaxBuffered
    /\ \E kind \in BufferedKinds :
          events_buffer' = Append(events_buffer, Event(kind, "", ""))
    /\ UNCHANGED <<scrape_task, scrape_task_done, d_pc, d_last_position,
                   d_sent>>
    /\ UNCHANGED <<epVars, directFrame, streamVars>>

\* how the executor thread can end: scrape_and_analyze returns the JSON of
\* a record, returns something ProductSnapshot.model_validate_json rejects,
\* or raises
ScrapeOutcomes == {"returned", "returned_invalid", "raised"}

\* scrape_and_analyze returns or raises: the executor thread ends
ScrapeFinish ==
    /\ scrape_task = "running"
    /\ \E outcome \in ScrapeOutcomes : scrape_task' = outcome
    /\ UNCHANGED <<scrape_task_done, events_buffer, d_pc, d_last_position,
                   d_sent>>
    /\ UNCHANGED <<epVars, directFrame, streamVars>>

\* the generator is suspended, in asyncio.sleep or at a yield: the event
\* loop runs other callbacks and the client may close the stream
DirectSuspended == d_pc \in {"sleep", "yield", "yield_remaining"}

\* the future returned by run_in_executor (line 88) is completed by a
\* callback of the event loop, which runs while the generator is suspended
\* and after the generator was cancelled, never while its code runs
FutureDone ==
    /\ scrape_task \in ScrapeOutcomes
    /\ ~scrape_task_done
    /\ DirectSuspended \/ d_pc = "disconnected"
    /\ scrape_task_done' = TRUE
    /\ UNCHANGED <<scrape_task, events_buffer, d_pc, d_last_position, d_sent>>
    /\ UNCHANGED <<epVars, directFrame, streamVars>>

TaskDoneWhenThreadEnds(task, future_done) == task \in ScrapeOutcomes

\* scrape_task.done(): the state of the asyncio future, not of the thread
TaskDone(task, future_done) == future_done

\* line 98: while not scrape_task.done()
DirectWhile ==
    /\ d_pc = "while"
    /\ d_pc' = IF TaskDone(scrape_task, scrape_task_done)
               THEN "await" ELSE "sleep"
    /\ UNCHANGED <<scrape_task, scrape_task_done, events_buffer,
                   d_last_position, d_sent>>
    /\ UNCHANGED <<epVars, directFrame, streamVars>>

\* line 99: await asyncio.sleep(0.1) returns
DirectSleep ==
    /\ d_pc = "sleep"
    /\ d_pc' = "drain"
    /\ UNCHANGED <<scrape_task, scrape_task_done, events_buffer,
                   d_last_position, d_sent>>
    /\ UNCHANGED <<epVars, directFrame, streamVars>>

\* lines 102-104: "while last_position < len(events_buffer)" reads the
\* buffer on every pass and yields the next event, or ends the pass
DirectDrain ==
    /\ d_pc = "drain"
    /\ IF d_last_position < Len(events_buffer)
       THEN /\ d_sent' = Append(d_sent, events_buffer[d_last_position + 1])
            /\ d_pc' = "yield"
       ELSE /\ d_pc' = "while"
            /\ UNCHANGED d_sent
    /\ UNCHANGED <<scrape_task, scrape_task_done, events_buffer,
                   d_last_position>>
    /\ UNCHANGED <<epVars, directFrame, streamVars>>

\* lines 105 and 115: the generator is resumed after a yield of a buffered
\* event: last_position += 1, then the loop condition again
DirectResume ==
    /\ d_pc \in {"yield", "yield_remaining"}
    /\ d_last_position' = d_last_position + 1
    /\ d_pc' = IF d_pc = "yield" THEN "drain" ELSE "remaining"
    /\ UNCHANGED <<scrape_task, scrape_task_done, events_buffer, d_sent>>
    /\ UNCHANGED <<epVars, directFrame, streamVars>>

\* lines 107-109 and 127-133: await scrape_task re-raises what the scraper
\* raised, and ProductSnapshot.model_validate_json raises on a result that
\* is not the JSON of a record; either way the except block yields the
\* error event and the generator ends
DirectAwait ==
    /\ d_pc = "await"
    /\ IF scrape_task \in {"raised", "returned_invalid"}
       THEN /\ d_sent' =
                  Append(d_sent, ErrorEvent("Scraping failed", "exception"))
            /\ d_pc' = "closed"
       ELSE /\ d_pc' = "remaining"
            /\ UNCHANGED d_sent
    /\ UNCHANGED <<scrape_task, scrape_task_done, events_buffer,
                   d_last_position>>
    /\ UNCHANGED <<epVars, directFrame, streamVars>>

\* lines 111-122: the events still unsent are yielded one by one, then the
\* complete event, and the generator ends
DirectRemaining ==
    /\ d_pc = "remaining"
    /\ IF d_last_position < Len(events_buffer)
       THEN /\ d_sent' = Append(d_sent, events_buffer[d_last_position + 1])
            /\ d_pc' = "yield_remaining"
       ELSE /\ d_sent' =
                  Append(d_sent,
                         CompleteEvent(
                             "All done! Your product information is ready",
                             "record"))
            /\ d_pc' = "closed"
    /\ UNCHANGED <<scrape_task, scrape_task_done, events_buffer,
                   d_last_position>>
    /\ UNCHANGED <<epVars, directFrame, streamVars>>

\* the client closes the stream while the generator is suspended; the
\* generator is cancelled there and yields nothing more
DirectDisconnect ==
    /\ DirectSuspended
    /\ d_pc' = "disconnected"
    /\ UNCHANGED <<scrape_task, scrape_task_done, events_buffer,
                   d_last_position, d_sent>>
    /\ UNCHANGED <<epVars, directFrame, streamVars>>

NextDirect ==
    \/ DirectStart \/ ScrapeCallback \/ ScrapeFinish \/ FutureDone
    \/ DirectWhile \/ DirectSleep \/ DirectDrain \/ DirectResume
    \/ DirectAwait \/ DirectRemaining \/ DirectDisconnect
SpecDirect == InitNoJob /\ [][NextDirect]_vars

\* a fresh ToolRegistry and a sequence of register calls
SpecRegistry == InitNoJob /\ [][register]_vars

\* one job run during which up to MaxFaults Redis writes fail
InitFault ==
    /\ EpIdle
    /\ JobInit("none", MaxFreeTurns, max_iterations, MaxFaults, None)
    /\ StreamInit
SpecFault == InitFault /\ [][JobNext]_vars

\* a job of at most MaxFaultToolTurns tool turns with failing Redis writes,
\* and one stream connection; the forced request is out of reach here
InitFaultStream ==
    /\ EpIdle
    /\ JobInit("none", 0, MaxFaultToolTurns, MaxFaults, None)
    /\ StreamStart(MaxPollsModel, MaxFaults)
SpecFaultStream == InitFaultStream /\ [][Next]_vars

(***************************************************************************)
(* Readers of the log (RedisEventEmitter.get_persisted_events and          *)
(* get_event_count) and views used by the properties.                      *)
(***************************************************************************)
\* redis_event_emitter.py:140-145: lrange and json.loads of every entry; a
\* read that raises is logged and answered with the empty list
get_persisted_events(fault) ==
    IF fault = "raise" THEN <<>> ELSE LRange(events_log, 0)

\* redis_event_emitter.py:153-157: llen; a read that raises is answered with 0
get_event_count(fault) ==
    IF fault = "raise" THEN 0 ELSE Len(events_log)

\* the notifications of this connection that carry an event id
SentWithId == SelectSeq(sent, LAMBDA n : n.id # NoId)

\* the tool_calls lists of the assistant messages, one per tool turn
RequestedBatches ==
    LET assistant == SelectSeq(messages, LAMBDA m : m.role = "assistant")
    IN  [i \in 1..Len(assistant) |-> assistant[i].tool_calls]

Responses == [i \in 1..Len(model_calls) |-> model_calls[i].response]

\* where the worker is or, during an emit, where it goes on when the
\* emit_* call under way returns
WorkerAt == IF emit_pending # <<>> THEN emit_pending[1].ok_pc ELSE pc

\* the worker has recorded the job as failed; clear_queue may have removed
\* the record of the failed job since
EndedFailed == pc = "done" /\ rq_status \in {"failed", "deleted"}

\* the agent loop has returned its snapshot to scrape_product_job
LoopReturned ==
    \/ pc \in {"store", "job_complete", "returned"}
    \/ emit_pending # <<>> /\ emit_pending[1].ok_pc = "returned"
    \/ pc = "done" /\ rq_status = "finished"

(***************************************************************************)
(* Properties.                                                             *)
(***************************************************************************)

\* C1: a connection that closes because it saw the job's terminal status
\* (finished or failed, at connect time or while polling) has delivered a
\* terminal complete or error notification as its last notification.
StreamEndsWithTerminal ==
    (s_pc = "closed" /\ close_reason \in {"finished", "failed", "job_ended"})
        => (sent # <<>> /\ IsTerminal(Last(sent).body))

\* C2: within one connection the notifications that carry an id are the log
\* entries 0, 1, 2, ... in log order, each once, the one with id i carrying
\* entry i, and every poll and the final read start at the number delivered.
StreamDeliversLogInOrder ==
    /\ Len(SentWithId) <= Len(events_log)
    /\ \A i \in 1..Len(SentWithId) :
          /\ SentWithId[i].id = i - 1
          /\ SentWithId[i].body = events_log[i]
    /\ s_pc \in {"poll", "check", "is_finished", "is_failed", "drain"} =>
          last_position = Len(SentWithId)

\* C2 witness: connected after events 0..4 were logged, job still started,
\* and events 5 and 6 were delivered by polling
StreamReplayedFiveThenTailed ==
    /\ rq_status = "started"
    /\ s_pc = "poll"
    /\ Len(events_json_list) = 5
    /\ Len(SentWithId) >= 7
    /\ SentWithId[7].id = 6

\* C3: after n emits by the job's emitter, starting from an empty log, a full
\* read returns exactly those n events in emission order and the count is n;
\* the emitter's own counter is n once the n-th emit has returned.
LogHoldsEmittedEvents ==
    /\ \A fault \in ReadFaults :
          /\ get_persisted_events(fault) = emitted
          /\ get_event_count(fault) = Len(emitted)
    /\ emit_pending = <<>> => event_count = Len(emitted)

\* C3 witness: three different events were emitted and read back
ThreeEventsEmitted ==
    /\ Len(emitted) >= 3
    /\ emitted[1].event = "start"
    /\ emitted[2].event = "tool_call"
    /\ emitted[3].event = "progress"
    /\ get_persisted_events("none")[3].event = "progress"
    /\ get_event_count("none") = Len(emitted)

\* C4: a full read of the log at an earlier time is a prefix of a full read
\* at any later time: no step of the job or of a stream removes, reorders or
\* rewrites an appended event.
ReadsArePrefixConsistent ==
    [][IsPrefix(LRange(events_log, 0), LRange(events_log', 0))]_vars

\* C4 witness: the stream read the log while the job ran, the job finished,
\* and the log has grown since that read
ReadBeforeAndAfterFinish ==
    /\ rq_status = "finished"
    /\ events_json_list # <<>>
    /\ Len(events_json_list) < Len(events_log)
    /\ IsPrefix(events_json_list, events_log)

\* C5: for a batch with pairwise distinct call ids, execute_parallel returns
\* one result per invocation and result i has the call id of invocation i,
\* whatever the completion order.
ResultsInInputOrder ==
    (ep_pc = "returned" /\ DistinctIds(ep_tool_calls))
        => /\ Len(ep_sorted) = Len(ep_tool_calls)
           /\ \A i \in 1..Len(ep_tool_calls) :
                 ep_sorted[i].call_id = ep_tool_calls[i].id

\* C5 witness: three distinct calls completed in another order than submitted
CompletedOutOfOrder ==
    /\ ep_pc = "returned"
    /\ DistinctIds(ep_tool_calls)
    /\ Len(ep_tool_calls) = 3
    /\ ep_results[1].call_id = 3
    /\ ep_sorted[1].call_id = 1

\* C6: a raising handler never aborts the batch: the batch returns one result
\* per invocation, the raising call's result has success = FALSE, and the
\* other calls' results are what their own handlers produced.
RaisingHandlerDoesNotAbort ==
    /\ ep_pc # "aborted"
    /\ ep_pc = "returned" =>
        /\ Len(ep_sorted) = Len(ep_tool_calls)
        /\ \A i \in 1..Len(ep_tool_calls) :
              \E j \in 1..Len(ep_sorted) :
                 /\ DistinctIds(ep_tool_calls) => j = i
                 /\ ep_sorted[j].call_id = ep_tool_calls[i].id
                 /\ ep_sorted[j].name = ep_tool_calls[i].name
                 /\ ep_outcome[i] = "raise" => ~ep_sorted[j].success
                 /\ ep_outcome[i] = "ok" => ep_sorted[j].success
                 /\ ep_outcome[i] = "not_called" => ~ep_sorted[j].success

\* C6 witness: a batch returned in which one handler raised and another one
\* returned normally
BatchWithRaisingHandlerReturned ==
    /\ ep_pc = "returned"
    /\ Len(ep_sorted) = 3
    /\ ep_outcome[1] = "raise"
    /\ ep_outcome[2] = "ok"
    /\ ~ep_sorted[1].success
    /\ ep_sorted[2].success

\* C7 (as stated): at most max_iterations model calls are issued, and the
\* call of the last iteration is issued without tools.
ModelCallsWithinBudget ==
    /\ Len(model_calls) <= max_iterations
    /\ \A i \in 1..Len(model_calls) :
          model_calls[i].iteration = max_iterations => ~model_calls[i].tools

\* C7 (amended): at most max_iterations iterations run, each issuing one
\* request with the tool catalog; one more request, without tools, is issued
\* only on the last iteration after the model asked for tools there; the last
\* iteration never dispatches tools.
ModelCallsBounded ==
    /\ current_iteration <= max_iterations
    /\ Len(model_calls) <= max_iterations + 1
    /\ \A i \in 1..Len(model_calls) :
          /\ model_calls[i].tools => model_calls[i].iteration = i
          /\ ~model_calls[i].tools =>
                /\ i = max_iterations + 1
                /\ model_calls[i].iteration = max_iterations
                /\ model_calls[i - 1].response = "tools"
    /\ dispatches <= max_iterations - 1
    /\ Len(RequestedBatches) <= max_iterations - 1
    /\ (current_iteration = max_iterations) => pc \notin {"reading", "dispatch", "update"}

\* C7 witness: the forced request was issued as model call max_iterations + 1
ForcedRequestIssued ==
    /\ Len(model_calls) = max_iterations + 1
    /\ ~Last(model_calls).tools
    /\ dispatches = max_iterations - 1

\* C8: when the model requests tools on every turn including the last, the
\* last turn is re-asked without tools; a valid record of the forced call
\* makes complete the final log event and the job finished, nothing parseable
\* makes error the final log event and the job failed.
ForcedFinalDecidesJob ==
    (pc = "done" /\ Len(Responses) >= max_iterations
        /\ \A i \in 1..max_iterations : Responses[i] = "tools")
    => /\ Len(model_calls) = max_iterations + 1
       /\ ~Last(model_calls).tools
       /\ Last(model_calls).response = "record" =>
             Last(events_log).event = "complete" /\ rq_status = "finished"
       /\ Last(model_calls).response = "none" =>
             Last(events_log).event = "error" /\ EndedFailed

\* C8 witness: the forced call returned nothing parseable and the job failed
ForcedFinalUnparseable ==
    /\ pc = "done"
    /\ Len(model_calls) = max_iterations + 1
    /\ Last(model_calls).response = "none"
    /\ rq_status = "failed"
    /\ Last(events_log).event = "error"

\* the model asked for tools on turns 1 and 2 and answered on turn 3
TwoToolTurnsThenAnswer ==
    /\ LoopReturned
    /\ Responses = <<"tools", "tools", "record">>

\* every batch requested so far holds one call of a registered tool whose
\* arguments suit the tool
OneRegisteredToolPerTurn ==
    \A i \in 1..Len(RequestedBatches) :
        /\ Len(RequestedBatches[i]) = 1
        /\ HandlerInvoked(RequestedBatches[i][1])
        /\ RequestedBatches[i][1].arguments \in {"url", "query"}

\* C9: in a run where the model requests one registered tool on turns 1
\* and 2 and answers on turn 3 there are 2 dispatches and the loop emits
\* start, tool_call, progress, tool_call, progress, complete, whichever
\* registered tool is requested.
ScenarioKindsAsStated ==
    (TwoToolTurnsThenAnswer /\ OneRegisteredToolPerTurn) =>
        /\ dispatches = 2
        /\ loop_events = <<"start", "tool_call", "progress", "tool_call",
                           "progress", "complete">>

\* C10: the log holds at most one terminal event and it is its last entry.
TerminalEventIsLastEntry ==
    \A i \in 1..Len(events_log) :
        IsTerminal(events_log[i]) => i = Len(events_log)

(***************************************************************************)
(* Failure handling of the job.                                            *)
(***************************************************************************)
\* positions in model_calls of the calls that raised
RaisedCalls ==
    {i \in 1..Len(model_calls) : model_calls[i].response = "raise"}

\* the tool turns that the loop dispatches: tool requests before the last
\* iteration
DispatchedTurns ==
    {i \in 1..Len(model_calls) :
        /\ model_calls[i].response = "tools"
        /\ ~IsFinalIteration(model_calls[i].iteration)}

\* C11: once a model call has raised it stays the last model call and no
\* tool batch is dispatched after it; the job function appends an error
\* event before the exception leaves it, and the job ends failed.
ModelRaiseFailsJob ==
    RaisedCalls # {} =>
        /\ RaisedCalls = {Len(model_calls)}
        /\ dispatches = Cardinality(DispatchedTurns \ {Len(model_calls)})
        /\ WorkerAt \in {"except", "raised", "done"}
        /\ rq_status # "finished"
        /\ pc \in {"raised", "done"} =>
              /\ events_log # <<>>
              /\ Last(events_log).event = "error"
        /\ pc = "done" => EndedFailed

ModelRaisedAfterToolTurn ==
    /\ pc = "done"
    /\ rq_status = "failed"
    /\ Len(model_calls) >= 2
    /\ model_calls[Len(model_calls)].response = "raise"
    /\ dispatches >= 1

\* where the caller of an emit_* call goes on when the call returns normally
AfterEmit(at) ==
    CASE at = "emit_start" -> {"setup"}
      [] at = "reading" -> {"reading", "dispatch"}
      [] at = "update" -> {"request", "loop_error"}
      [] at = "loop_complete" -> {"store"}
      [] at = "loop_error" -> {"except"}
      [] at = "job_complete" -> {"returned"}
      [] at = "except" -> {"raised"}
      [] OTHER -> {}

\* C12: no emit_* call raises because the write to the log failed: whether
\* or not the rpush or the expire fails, the caller goes on at the position
\* that follows a successful emit.
EmitNeverRaises ==
    [][/\ Len(emitted') = Len(emitted) + 1 =>
             IF pc' = "persist_expire"
             THEN emit_pending'[1].ok_pc \in AfterEmit(pc)
             ELSE pc' \in AfterEmit(pc)
       /\ (pc = "persist_expire" /\ pc' # pc) =>
             pc' = emit_pending[1].ok_pc]_vars

JobFinishedDespiteLostWrite ==
    /\ pc = "done"
    /\ rq_status = "finished"
    /\ faults_left < MaxFaults
    /\ Len(events_log) < Len(emitted)

(***************************************************************************)
(* The stream and jobs that are unknown or failed.                         *)
(***************************************************************************)
\* C13: a connection for a job id with an empty log and no queue record
\* delivers the waiting notice, which has no id, and nothing else, and then
\* closes because the job was not found.
UnknownJobGetsOneWaiting ==
    (rq_status = "none" /\ events_log = <<>> /\ s_pc # "idle") =>
        /\ sent = <<WaitingNotice>>
        /\ WaitingNotice.id = NoId
        /\ s_pc \in {"retry", "fetch", "closed"}
        /\ s_pc = "closed" => close_reason = "not_found"

UnknownJobStreamClosed ==
    /\ rq_status = "none"
    /\ events_log = <<>>
    /\ s_pc = "closed"
    /\ Len(sent) = 1
    /\ sent[1].body.event = "waiting"

\* the synthesized "Job failed" notifications delivered on this connection
SynthesizedErrors == {i \in 1..Len(sent) : sent[i] = JobFailedNotice}

\* C14 (as stated): a connection that saw the job failed, at connect time or
\* at a status check while polling, and whose job's log holds no terminal
\* event, has delivered exactly one synthesized error when it closes.
FailedJobGetsOneSynthesizedError ==
    (/\ s_pc = "closed"
     /\ close_reason \in {"failed", "job_ended"}
     /\ rq_status = "failed"
     /\ \A i \in 1..Len(events_log) : ~IsTerminal(events_log[i]))
    => Cardinality(SynthesizedErrors) = 1

(***************************************************************************)
(* Tool dispatch: unknown tools, arguments that do not parse.              *)
(***************************************************************************)
\* C15: a call naming an unregistered tool ends in a failed ToolResult whose
\* content names the tool, without a handler being entered and without an
\* exception; the handler of any call is entered at most once.
UnknownToolFailsHandlersRunOnce ==
    /\ ep_pc # "aborted"
    /\ \A i \in 1..Len(ep_tool_calls) :
          LET tc == ep_tool_calls[i] IN
          /\ ep_invoked[i] <= 1
          /\ (i \in ep_collected /\ tc.name \notin RegisteredTools) =>
                /\ get_handler(tc.name) = None
                /\ ep_invoked[i] = 0
                /\ \E r \in Range(ep_results) :
                      /\ r.call_id = tc.id
                      /\ r.name = tc.name
                      /\ r.success = FALSE
                      /\ r.content = "Unknown tool: " \o tc.name

UnknownToolAndRaisingHandlerReturned ==
    /\ ep_pc = "returned"
    /\ \E i \in 1..Len(ep_tool_calls) : ep_tool_calls[i].name = "bogus_tool"
    /\ \E i \in 1..Len(ep_tool_calls) :
          ep_outcome[i] = "raise" /\ ep_invoked[i] = 1

\* the call reaches a registered handler with arguments that are not JSON or
\* do not fit the handler's parameters
BadArguments(tc) ==
    /\ get_handler(tc.name) # None
    /\ ~(ArgsParse(tc.arguments) /\ HandlerAccepts(tc.name, tc.arguments))

\* positions in messages of the assistant messages that request tools
ToolRequests == {p \in 1..Len(messages) : messages[p].role = "assistant"}

\* those whose batch execute_parallel has returned: all but the last one
\* while the loop waits for its batch
AnsweredRequests ==
    IF pc = "executing" THEN ToolRequests \ {Len(messages)} ELSE ToolRequests

\* C16: in every batch that execute_parallel has returned each call has its
\* own tool message in the history; a call with bad arguments has a failed
\* result, a search_web call with a string query next to it still has its
\* result; the loop is not aborted by the batch but emits its update and
\* goes to the next turn.
BadArgumentsFailOneCall ==
    /\ pc = "executing" => Last(messages).role = "assistant"
    /\ \A p \in AnsweredRequests :
          LET b == messages[p].tool_calls IN
          \A i \in 1..Len(b) :
              /\ p + i <= Len(messages)
              /\ messages[p + i].role = "tool"
              /\ messages[p + i].tool_call_id = b[i].id
              /\ BadArguments(b[i]) => messages[p + i].content = "error"
              /\ (b[i].name = "search_web" /\ b[i].arguments = "query") =>
                    messages[p + i].content = "result"
    /\ dispatches = Cardinality(ToolRequests)
    /\ current_iteration >= 1 =>
          /\ pc \in {"reading", "dispatch"} =>
                dispatches = current_iteration - 1
          /\ (pc \in {"executing", "update"} \/ WorkerAt = "request") =>
                dispatches = current_iteration
          /\ pc = "update" => Last(messages).role = "tool"

BadArgumentsTurnFollowedByModelCall ==
    /\ Len(model_calls) >= 2
    /\ \E p \in ToolRequests :
          LET b == messages[p].tool_calls IN
          /\ Len(b) = 2
          /\ b[1].arguments = "badjson" /\ messages[p + 1].content = "error"
          /\ b[2].name = "search_web" /\ messages[p + 2].content = "result"

\* the loop ended on a model call that raised or on an unparseable answer
LoopFatal ==
    /\ model_calls # <<>>
    /\ Last(model_calls).response \in {"raise", "none"}

\* load_azure_openai_client raised: the loop was never entered
ClientLoadFailed == pc \in {"except", "raised", "done"} /\ loop_events = <<>>

\* the loop returned its record and redis_client.set raised
ResultWriteFailed ==
    /\ pc \in {"except", "raised", "done"}
    /\ loop_events # <<>>
    /\ Last(loop_events) = "complete"
    /\ result_writes = 0

\* C17 (as stated): a job that has ended is failed exactly if its loop ended
\* on a raising model call or an unparseable final answer.
JobFailsIffLoopFatal ==
    pc = "done" => (EndedFailed <=> LoopFatal)

\* C17 (amended): a job that has ended is failed exactly if loading the
\* client raised, the loop ended on a raising model call or an unparseable
\* answer, or the write of the result raised; otherwise it is finished,
\* whatever the tool handlers and the writes to the event log did.
JobFailsIffFatalCause ==
    pc = "done" =>
        /\ rq_status = "finished" \/ EndedFailed
        /\ EndedFailed <=>
              (ClientLoadFailed \/ LoopFatal \/ ResultWriteFailed)

JobFinishedDespiteToolAndLogFailure ==
    /\ pc = "done"
    /\ rq_status = "finished"
    /\ \E p \in 1..Len(messages) :
          messages[p].role = "tool" /\ messages[p].content = "error"
    /\ Len(events_log) < Len(emitted)

(***************************************************************************)
(* The result store.                                                       *)
(***************************************************************************)
\* C18: the result key is set at most once, only after the loop returned a
\* record, with the expiry the event log has; a job that reached its
\* completion has set it exactly once, and a job whose loop failed never.
ResultWrittenOnceAfterLoopDone ==
    /\ result_writes <= 1
    /\ result_writes = 0 => result_store = "none"
    /\ result_writes = 1 =>
          /\ result_store = "record"
          /\ Last(model_calls).response = "record"
          /\ Last(loop_events) = "complete"
          /\ result_ttl = events_ttl
          /\ result_ttl = EventsExpireSeconds
    /\ pc \in {"job_complete", "returned"} => result_writes = 1
    /\ (pc = "done" /\ rq_status = "finished") => result_writes = 1
    /\ LoopFatal => result_writes = 0

ResultStoredAfterToolTurns ==
    /\ pc = "done"
    /\ rq_status = "finished"
    /\ result_writes = 1
    /\ dispatches >= 2

(***************************************************************************)
(* Payloads of the terminal events.                                        *)
(***************************************************************************)
\* C19 (as stated): every complete event in the log carries the extracted
\* record as its data, and every error event in the log carries a message
\* and a diagnostic string.
TerminalEventsCarryPayload ==
    \A i \in 1..Len(events_log) :
        LET e == events_log[i] IN
        /\ e.event = "complete" => e.data = "record"
        /\ e.event = "error" => e.message # "" /\ e.data # ""

(***************************************************************************)
(* The emitter called directly.                                            *)
(***************************************************************************)
\* C20: every emit_* call appends exactly one event, the one it was called
\* for, to the log, and the callback is invoked with it exactly once, after
\* the append, if a callback is attached and not at all if none is.
EmitAppendsOnceAndCallsBack ==
    /\ events_log = emitted
    /\ callback = None => received = <<>>
    /\ emit_pending = <<>> =>
          /\ event_count = Len(emitted)
          /\ callback # None => received = emitted
    /\ emit_pending # <<>> =>
          /\ Last(emitted) = emit_pending[1].event
          /\ callback # None =>
                received = SubSeq(emitted, 1, Len(emitted) - 1)

(***************************************************************************)
(* Several jobs on one Redis.                                              *)
(***************************************************************************)
\* C21: a call on this job's emitter (an emit or clear_events) leaves the
\* other job's log as it was, and a call on the other job's emitter leaves
\* this job's log as it was, in every interleaving of the two.
LogsOfJobsIsolated ==
    [][/\ other_calls' = other_calls => other_log' = other_log
       /\ other_calls' # other_calls => events_log' = events_log]_vars

BothJobsLoggedAfterClear ==
    /\ Len(emitted) = MaxEmits
    /\ Len(events_log) = 1
    /\ Len(other_log) = 2
    /\ other_calls = MaxEmits

(***************************************************************************)
(* The poll loop of the stream.                                            *)
(***************************************************************************)
\* the error notifications this connection added to what the log holds
OwnErrors ==
    SelectSeq(sent, LAMBDA n : n.id = NoId /\ n.body.event = "error")

\* the job function has neither returned nor raised
JobNeverEnded == pc # "done"

StreamReadFailureYieldsError ==
    [][read_faults_left' < read_faults_left =>
          /\ sent' = Append(sent, StreamErrorNotice)
          /\ s_pc' = "closed"
          /\ UNCHANGED <<events_log, events_ttl, rq_status, resultVars>>]_vars

\* the notifications of the other connection that carry an event id
OtherSentWithId == SelectSeq(other_conn.sent, LAMBDA n : n.id # NoId)

\* the generator returned because it saw the job finished or failed
ClosedOnJobEnd(conn) ==
    /\ conn.s_pc = "closed"
    /\ conn.close_reason \in {"finished", "failed", "job_ended"}

\* the first read of the connection found the log empty (line 219).  The
\* log only grows and a job that has ended appends nothing, so of two such
\* connections that both saw the job ended, one that started after the
\* other had returned found the log empty for good: whenever their
\* deliveries differ, the two were open at the same time
ConnectedBeforeFirstEvent(conn) ==
    conn.sent # <<>> /\ conn.sent[1] = WaitingNotice

\* C24 (as stated): no step of a connection changes the job's log, its
\* expiry, the job's status or its result; and two connections to the job
\* that both connected before the job's first event and both ran until
\* they saw the job ended have delivered the same sequence of events.
ConnectionsOnlyReadAndAgree ==
    /\ [][(streamVars' # streamVars \/ other_conn' # other_conn) =>
             UNCHANGED <<events_log, events_ttl, event_count, rq_status,
                         resultVars>>]_vars
    /\ []((/\ ClosedOnJobEnd(ThisConnection)
            /\ ClosedOnJobEnd(other_conn)
            /\ ConnectedBeforeFirstEvent(ThisConnection)
            /\ ConnectedBeforeFirstEvent(other_conn)) =>
             SentWithId = OtherSentWithId)

(***************************************************************************)
(* Retention of the log.                                                   *)
(***************************************************************************)
\* C25: once an emit has returned, the log expires no earlier than one full
\* retention window after its last append and no later than one window from
\* now, whatever time passed before the append; an emit that returns with no
\* time passed leaves the full window.
LogExpiresWindowAfterLastAppend ==
    /\ (events_log # <<>> /\ pc # "persist_expire") =>
          /\ events_ttl >= EventsExpireSeconds - (now - appended_at)
          /\ events_ttl <= EventsExpireSeconds
    /\ (emitted # <<>> /\ pc = "idle" /\ now = appended_at) =>
          events_ttl = EventsExpireSeconds

\* C25 witness: the second event was appended at time 1, its expire was
\* sent one tick later, and the emit has returned
AppendAfterTimePassed ==
    /\ Len(events_log) = 2
    /\ pc = "idle"
    /\ appended_at = 1
    /\ now = MaxTicks
    /\ events_ttl = EventsExpireSeconds

(***************************************************************************)
(* The tool registry.                                                      *)
(***************************************************************************)
\* the names registered so far and the last registration of a name
RegisteredNames == {registered[i].name : i \in 1..Len(registered)}

LastRegistration(name) ==
    registered[CHOOSE i \in 1..Len(registered) :
                  /\ registered[i].name = name
                  /\ \A j \in (i + 1)..Len(registered) :
                        registered[j].name # name]

\* C26: after any sequence of register calls a registered name resolves to
\* the schema and handler of its last registration and any other name to
\* the none marker; get_all_schemas has one entry per registered name, the
\* one of its last registration; the names with a schema are the names with
\* a handler.
RegisterOverwrites ==
    /\ \A name \in RegistryNames :
          IF name \in RegisteredNames
          THEN /\ get_schema(name) = LastRegistration(name).schema
               /\ get_registered_handler(name) = LastRegistration(name).handler
               /\ has_tool(name)
          ELSE /\ get_schema(name) = None
               /\ get_registered_handler(name) = None
               /\ ~has_tool(name)
    /\ Len(get_all_schemas) = Cardinality(RegisteredNames)
    /\ \A name \in RegisteredNames :
          \E i \in 1..Len(get_all_schemas) :
             /\ _tools[i].name = name
             /\ get_all_schemas[i].function = LastRegistration(name).schema
    /\ DictKeys(_tools) = DictKeys(_handlers)
    /\ DictKeys(_tools) = RegisteredNames

NameRegisteredTwice ==
    /\ Len(registered) = 3
    /\ registered[1].name = registered[3].name
    /\ registered[1].schema # registered[3].schema
    /\ registered[1].handler # registered[3].handler
    /\ registered[2].name # registered[1].name
    /\ Len(get_all_schemas) = 2

(***************************************************************************)
(* The agent loop: the last iteration, notifications, the history.         *)
(***************************************************************************)
\* C27: once the model has requested tools on the last iteration, the
\* history stays the one that request was sent with: no assistant or tool
\* message of that turn is added and no batch is dispatched; the forced
\* request is sent without tools and with that same history.
LastTurnToolsDiscarded ==
    (/\ Len(model_calls) >= max_iterations
     /\ model_calls[max_iterations].response = "tools")
    => /\ messages = model_calls[max_iterations].history
       /\ dispatches = max_iterations - 1
       /\ Cardinality(ToolRequests) = max_iterations - 1
       /\ \A p \in 1..Len(messages) :
             /\ messages[p].role = "assistant" =>
                   messages[p].tool_calls # tool_calls
             /\ messages[p].role = "tool" =>
                   \A i \in 1..Len(tool_calls) :
                       messages[p].tool_call_id # tool_calls[i].id
       /\ Len(model_calls) = max_iterations + 1 =>
             /\ ~Last(model_calls).tools
             /\ Last(model_calls).iteration = max_iterations
             /\ Last(model_calls).history =
                   model_calls[max_iterations].history

ForcedRequestAnsweredWithRecord ==
    /\ pc = "done"
    /\ Len(model_calls) = max_iterations + 1
    /\ Last(model_calls).response = "record"
    /\ tool_calls # <<>>
    /\ Len(Last(model_calls).history) > 2

\* the per-invocation notices (tool_call) and the after-batch notices
\* (progress) the loop has emitted
PerCallNotices == SelectSeq(loop_events, LAMBDA k : k = "tool_call")
AfterBatchNotices == SelectSeq(loop_events, LAMBDA k : k = "progress")

RECURSIVE TotalCalls(_)
TotalCalls(batches) ==
    IF batches = <<>> THEN 0
    ELSE TotalCalls(SubSeq(batches, 1, Len(batches) - 1))
         + Len(Last(batches))

\* C28: on every tool turn before the last iteration, when the batch is
\* about to be dispatched one tool_call notice has been emitted for every
\* invocation requested so far, whatever its tool and arguments, and one
\* progress notice for every batch already completed.
OneNoticePerInvocation ==
    pc = "dispatch" =>
        /\ Len(PerCallNotices) = TotalCalls(RequestedBatches) + Len(tool_calls)
        /\ Len(AfterBatchNotices) = Len(RequestedBatches)

\* the tool messages in a history that answer the call with this id
Answers(history, id) ==
    {q \in 1..Len(history) :
        history[q].role = "tool" /\ history[q].tool_call_id = id}

\* C29: the history is the two opening messages followed, per tool turn, by
\* one assistant message listing the k requested calls and, once the batch
\* has been executed, exactly k tool messages, the i-th with the id and name
\* of the i-th call; in the history sent with any model request every
\* requested call id has exactly one tool message.
HistoryGrowsByRequestAndResults ==
    /\ (Len(messages) >= 2 /\ pc # "executing") =>
          Len(messages) =
              2 + Len(RequestedBatches) + TotalCalls(RequestedBatches)
    /\ pc = "executing" =>
          /\ Last(messages).role = "assistant"
          /\ Last(messages).tool_calls = tool_calls
    /\ \A p \in AnsweredRequests :
          LET b == messages[p].tool_calls IN
          /\ p + Len(b) <= Len(messages)
          /\ \A i \in 1..Len(b) :
                /\ messages[p + i].role = "tool"
                /\ messages[p + i].tool_call_id = b[i].id
                /\ messages[p + i].name = b[i].name
          /\ p + Len(b) < Len(messages) =>
                messages[p + Len(b) + 1].role = "assistant"
    /\ \A c \in 1..Len(model_calls) :
          LET h == model_calls[c].history IN
          \A p \in 1..Len(h) :
              h[p].role = "assistant" =>
                  \A i \in 1..Len(h[p].tool_calls) :
                      Cardinality(Answers(h, h[p].tool_calls[i].id)) = 1

SecondRequestSeesTwoResults ==
    /\ Len(model_calls) >= 3
    /\ Len(RequestedBatches[1]) = 2
    /\ Len(model_calls[2].history) = 5
    /\ model_calls[2].history[4].content = "error"
    /\ model_calls[2].history[5].content = "result"
    /\ Len(model_calls[3].history) = 7

ModelCallIssued == Len(model_calls') > Len(model_calls)

BatchSubmitted == dispatches' > dispatches

HandlerStarted == \E i \in ep_running' : i \notin ep_running

NoHandlerPending == ep_queue = <<>> /\ ep_running = {}

\* C30: tool batches are never pipelined: a model call is issued, and the
\* next batch is submitted, only when no handler of the previous batch is
\* queued or running, and a handler starts only while the loop waits inside
\* execute_parallel for its own batch.
BatchesNeverPipelined ==
    [][/\ (ModelCallIssued \/ BatchSubmitted) => NoHandlerPending
       /\ HandlerStarted =>
             /\ pc = "executing"
             /\ ep_tool_calls = tool_calls
             /\ Cardinality(ToolRequests) = dispatches]_vars

SecondBatchAfterParallelFirst ==
    /\ dispatches = 2
    /\ Len(model_calls) = 2
    /\ Len(RequestedBatches[1]) >= 2
    /\ ep_running # {}
    /\ Len(messages) = 3 + Len(RequestedBatches[1]) + 1

\* C31: during execute_parallel at most 5 handlers of the batch run at the
\* same time, whatever the batch size; a call starts only when fewer than 5
\* are running, and every call of the batch is eventually executed once and
\* the batch returns.
AtMostFiveHandlersAndAllRun ==
    /\ [](Cardinality(ep_running) <= 5)
    /\ [][HandlerStarted => Cardinality(ep_running) < 5]_vars
    /\ <>(/\ ep_pc = "returned"
          /\ Len(ep_sorted) = Len(ep_tool_calls)
          /\ \A i \in 1..Len(ep_tool_calls) : ep_invoked[i] = 1)

SixthCallWaitsForWorker ==
    /\ Cardinality(ep_running) = 5
    /\ ep_queue # <<>>
    /\ ep_results = <<>>


\* C32: when a connection closes because the status check reported the job
\* finished, every event in the job's log at that moment has been delivered on
\* the connection, also the events appended after its first read of the log.
FinishedCloseDeliveredWholeLog ==
    (s_pc = "closed" /\ rq_status = "finished"
        /\ close_reason \in {"finished", "job_ended"})
        => /\ Len(SentWithId) = Len(events_log)
           /\ \A i \in 1..Len(events_log) : SentWithId[i].body = events_log[i]


\* C33: one connection delivers at most one terminal notification, replayed
\* from the log or synthesized by the stream.
AtMostOneTerminalNotification ==
    Len(SelectSeq(sent, LAMBDA n : IsTerminal(n.body))) <= 1


\* C34: whenever a complete event is in the job's log, the job's final record
\* is already in the result store.
CompleteEventImpliesResultStored ==
    (\E i \in 1..Len(events_log) : events_log[i].event = "complete")
        => result_store = "record"


WithoutPositions(s, dropped) ==
    LET keep == (1..Len(s)) \ dropped
    IN  [p \in 1..Cardinality(keep) |->
            s[CHOOSE i \in keep : Cardinality({j \in keep : j < i}) = p - 1]]

\* C36: a failed log write affects only its own event: an attached callback
\* has received every event of a persisting emit once that emit has
\* returned, the failed one included; the log holds
\* the emitted events in emission order with at most the failed ones
\* missing; and every emit whose write does not fail appends its event at
\* the end of the log.
LogWriteFailureIsLocal ==
    /\ [](callback # None =>
             ReceivedPersisted = IF emit_pending = <<>> THEN emitted
                        ELSE SubSeq(emitted, 1, Len(emitted) - 1))
    /\ [][emit_pending # <<>> => emit_pending' \in {emit_pending, <<>>}]_vars
    /\ [](\E dropped \in SUBSET (1..Len(emitted)) :
             /\ Cardinality(dropped) <= MaxFaults - faults_left
             /\ events_log = WithoutPositions(emitted, dropped))
    /\ [][(Len(emitted') = Len(emitted) + 1 /\ faults_left' = faults_left)
             => events_log' = Append(events_log, Last(emitted'))]_vars

EmitAppendedAfterFailedWrite ==
    /\ callback # None
    /\ faults_left < MaxFaults
    /\ Len(emitted) = 3
    /\ events_log = <<emitted[1], emitted[3]>>
    /\ emitted[2] # emitted[3]
    /\ received = emitted


\* C37: a model turn at any iteration that returns neither tool calls nor a
\* parseable record is the last model call of the run, is followed by an error
\* event of the loop, and the run fails; the loop and the job emit a
\* complete event only after a model call returned a parseable record.
UnparseableAnswerFailsRun ==
    /\ \A i \in 1..Len(model_calls) :
          (model_calls[i].tools /\ model_calls[i].response = "none") =>
              /\ i = Len(model_calls)
              /\ model_calls[i].iteration \in 1..max_iterations
              /\ WorkerAt \in {"loop_error", "except", "raised", "done"}
              /\ pc # "loop_error" => Last(loop_events) = "error"
              /\ pc = "done" => EndedFailed
    /\ (\E i \in 1..Len(emitted) : emitted[i].event = "complete") =>
          /\ model_calls # <<>>
          /\ Last(model_calls).response = "record"

UnparseableAnswerAfterToolTurn ==
    /\ pc = "done"
    /\ rq_status = "failed"
    /\ Len(model_calls) = 2
    /\ model_calls[1].response = "tools"
    /\ model_calls[2].response = "none"
    /\ model_calls[2].iteration = 2
    /\ "complete" \notin Range(loop_events)


\* C38: every run of the agent loop that the worker starts ends and stays
\* ended, either returning a record to the job or raising, never both,
\* having run at most max_iterations iterations and at most
\* max_iterations - 1 tool batches.
LoopTerminatesWithinBudget ==
    /\ [](current_iteration <= max_iterations)
    /\ [](dispatches <= max_iterations - 1)
    /\ [][LoopReturned => LoopReturned']_vars
    /\ [][(pc \in {"except", "raised"} \/ EndedFailed)
             => ~LoopReturned']_vars
    /\ [](pc = "done" => /\ LoopReturned <=> rq_status = "finished"
                         /\ ~LoopReturned <=> EndedFailed)
    /\ (rq_status = "started") ~> (pc = "done")
    /\ [][pc = "done" => pc' = "done"]_vars

BudgetUsedUpThenReturned ==
    /\ pc = "done"
    /\ rq_status = "finished"
    /\ current_iteration = max_iterations
    /\ dispatches = max_iterations - 1


(***************************************************************************)
(* The shared Tavily client.                                               *)
(***************************************************************************)
\* C39: the current key index of a search client never decreases, stays
\* within the list of keys, and moves past a key only after a call made with
\* that key returned a rate-limit error, also when several search_web
\* handlers use the client at the same time.
KeyIndexAdvancesOnlyPastLimitedKeys ==
    [][\A i \in SearchThreads :
          /\ current_key_index'[i] >= current_key_index[i]
          /\ current_key_index'[i] \in 0..(len_api_keys - 1)
          /\ \A k \in current_key_index[i]..(current_key_index'[i] - 1) :
                k \in limited_keys]_vars

\* the thread makes an underlying call in this step
UnderlyingCall(t) == t_calls'[t] = t_calls[t] + 1

\* C40: one search makes at most len(api_keys) underlying calls; it returns
\* with the first successful call; an error that is no rate limit is raised
\* again at once, key and client unchanged; after a rate-limit error the
\* next call goes out with the next key; RuntimeError is raised only when
\* the call with the last key was rate-limited; search_web ends with a
\* payload and never raises.
SearchTriesEachKeyAtMostOnce ==
    /\ [](\A t \in SearchThreads :
             /\ t_calls[t] <= len_api_keys
             /\ t_payload[t] # "raised"
             /\ t_result[t] = "returned" =>
                   t_payload[t] = "success_payload"
             /\ t_result[t] \in {"reraised", "RuntimeError"} =>
                   t_payload[t] = "failure_payload")
    /\ [][\A t \in SearchThreads :
             /\ (t_result[t] = "running" /\ t_result'[t] = "returned") =>
                   UnderlyingCall(t)
             /\ (t_result[t] = "running" /\ t_result'[t] = "reraised") =>
                   /\ UnderlyingCall(t)
                   /\ current_key_index' = current_key_index
                   /\ client_key' = client_key
             /\ (UnderlyingCall(t) /\ t_calls[t] > 0) =>
                   /\ t_key[t] \in limited_keys
                   /\ t_key'[t] = t_key[t] + 1
             /\ (t_result[t] = "running" /\ t_result'[t] = "RuntimeError") =>
                   /\ t_key[t] = len_api_keys - 1
                   /\ t_key[t] \in limited_keys]_vars

====
